---- MODULE Spec2Model ----
(***************************************************************************)
(* A model of the Graph container of MrSanmi_Graph (Graph.hpp, with the    *)
(* Queue, Stack and DoubleLinkedList it is built on).                      *)
(*                                                                         *)
(* A NodeGraph* is a node identity 1..Len(m_data); NULL is nullptr.  The   *)
(* code never frees a NodeGraph, so identities are never reused and a node *)
(* that is no longer reachable from m_pRoot keeps its fields.              *)
(* A DoubleLinkedList<NodeGraph*> (a child list, a visitedNodes list) is   *)
(* the sequence of its elements: push_back, erase and operator[] are the   *)
(* only list operations Graph calls.                                       *)
(***************************************************************************)
EXTENDS Integers, Sequences, FiniteSets, TLC

\* Bounds of the model.
MaxNodes == 3        \* NodeGraph objects ever allocated
MaxEdges == 3        \* child-list entries in the whole graph
MaxPayload == 3      \* payloads are 1..MaxPayload
MaxInitKids == 2     \* children given to Graph(T, DoubleLinkedList<T>)
StepMaxPayload == 2  \* arguments of the calls that are run loop by loop

NULL == 0
Payloads == 1..MaxPayload
StepPayloads == 1..StepMaxPayload

VARIABLES
    m_pRoot,            \* Graph::m_pRoot
    m_data,             \* NodeGraph::m_data, by node
    m_children,         \* NodeGraph::m_children, by node
    has_been_visited,   \* NodeGraph::has_been_visited, by node
    last,               \* the public operation that returned last
    cout,               \* the lines the last printing traversal wrote
    pc,                 \* step machine: the loop being executed, or "idle"
    call,               \* step machine: the public operation in progress
    frame,              \* step machine: the locals of the running loop
    dll,                \* a DoubleLinkedList<T> object used on its own
    history,            \* the calls made so far, where a script is followed
    queue,              \* a Queue<T> object used on its own
    stack,              \* a Stack<T> object used on its own
    battle              \* a BattleManager with its TurnSystem and entities

gvars == <<m_pRoot, m_data, m_children, has_been_visited>>
svars == <<pc, call, frame>>
cvars == <<queue, stack>>
tvars == <<dll, history, cvars, battle>>
vars == <<m_pRoot, m_data, m_children, has_been_visited, last, cout, pc, call, frame,
          dll, history, queue, stack, battle>>

\* The graph as one value.
G == [root |-> m_pRoot, data |-> m_data, kids |-> m_children,
      vis |-> has_been_visited]

-----------------------------------------------------------------------------
(* Queue<T>: a singly linked chain with an element count.                  *)

Queue_new == [elems |-> <<>>, m_size |-> 0]

Queue_empty(q) == q.elems = <<>>

\* A faulty enqueue that links the new element at the front; C12 tells it
\* from enqueue.
enqueue_front(q, t_data) ==
    IF q.elems = <<>>
    THEN [elems |-> <<t_data>>, m_size |-> 1]
    ELSE [elems |-> <<t_data>> \o q.elems, m_size |-> q.m_size + 1]

enqueue(q, t_data) ==
    IF q.elems = <<>>
    THEN [elems |-> <<t_data>>, m_size |-> 1]
    ELSE [elems |-> Append(q.elems, t_data), m_size |-> q.m_size + 1]

\* A faulty dequeue that takes the element enqueued last; C21 tells it
\* from dequeue.
dequeue_newest(q) ==
    IF Len(q.elems) = 1
    THEN [value |-> Head(q.elems), rest |-> [elems |-> <<>>, m_size |-> 0]]
    ELSE [value |-> q.elems[Len(q.elems)],
          rest |-> [elems |-> SubSeq(q.elems, 1, Len(q.elems) - 1),
                    m_size |-> q.m_size - 1]]

\* dequeue on a non-empty queue: the value returned and the queue left.
dequeue(q) ==
    IF Len(q.elems) = 1
    THEN [value |-> Head(q.elems), rest |-> [elems |-> <<>>, m_size |-> 0]]
    ELSE [value |-> Head(q.elems),
          rest |-> [elems |-> Tail(q.elems), m_size |-> q.m_size - 1]]

(* Stack<T>: the same chain, pushed and popped at its head.                *)

Stack_new == [elems |-> <<>>, m_size |-> 0]

Stack_empty(s) == s.elems = <<>>

\* A faulty enstack that links the new element at the bottom; C13 tells it
\* from enstack.
enstack_bottom(s, t_data) ==
    IF s.elems = <<>>
    THEN [elems |-> <<t_data>>, m_size |-> 1]
    ELSE [elems |-> Append(s.elems, t_data), m_size |-> s.m_size + 1]

enstack(s, t_data) ==
    IF s.elems = <<>>
    THEN [elems |-> <<t_data>>, m_size |-> 1]
    ELSE [elems |-> <<t_data>> \o s.elems, m_size |-> s.m_size + 1]

\* A faulty destack that takes the element pushed first; C22 tells it
\* from destack.
destack_bottom(s) ==
    IF Len(s.elems) = 1
    THEN [value |-> Head(s.elems), rest |-> [elems |-> <<>>, m_size |-> 0]]
    ELSE [value |-> s.elems[Len(s.elems)],
          rest |-> [elems |-> SubSeq(s.elems, 1, Len(s.elems) - 1),
                    m_size |-> s.m_size - 1]]

\* destack on a non-empty stack: the value returned and the stack left.
destack(s) ==
    IF Len(s.elems) = 1
    THEN [value |-> Head(s.elems), rest |-> [elems |-> <<>>, m_size |-> 0]]
    ELSE [value |-> Head(s.elems),
          rest |-> [elems |-> Tail(s.elems), m_size |-> s.m_size - 1]]

(* DoubleLinkedList<T>, as Graph uses it.                                  *)

size(list) == Len(list)

\* operator[] with a 0-based index below size().
at(list, t_index) == list[t_index + 1]

push_back(list, t_data) == Append(list, t_data)

\* The position of the first element equal to t_data, 0 when there is none.
FirstIndex(list, t_data) ==
    IF \E i \in 1..Len(list) : list[i] = t_data
    THEN CHOOSE i \in 1..Len(list) :
             /\ list[i] = t_data
             /\ \A j \in 1..(i - 1) : list[j] # t_data
    ELSE 0

\* A faulty erase that drops the last element whatever it is; C6 tells it
\* from erase.
erase_back(list, t_data) ==
    IF list = <<>> THEN list ELSE SubSeq(list, 1, Len(list) - 1)

\* erase: removes the first occurrence of t_data, if any.
erase(list, t_data) ==
    LET k == FirstIndex(list, t_data) IN
    IF k = 0 THEN list
    ELSE SubSeq(list, 1, k - 1) \o SubSeq(list, k + 1, Len(list))

-----------------------------------------------------------------------------
(* DoubleLinkedList<T> as an object of its own: elems is the chain of      *)
(* nodes from m_pRoot to m_pLast, m_size the counter.  m_size is a size_t: *)
(* the model keeps the representative of its value modulo 2^64 that lies   *)
(* nearest 0, so -1 stands for 2^64 - 1.                                   *)

\* The element values and the longest chain the list program builds.
MaxListLen == 3
ListValues == {5, 7, 9}

\* DoubleLinkedList(): the empty list.
List_new == [elems |-> <<>>, m_size |-> 0]

\* a < b for two size_t values.
SizeLess(a, b) == IF (a < 0) = (b < 0) THEN a < b ELSE b < 0

List_size(l) == l.m_size

\* The outcome of an access: a value, or the out_of_range exception.
OutOfRange == [kind |-> "out_of_range", value |-> 0]
Value(v) == [kind |-> "value", value |-> v]

List_push_back(l, t_data) ==
    IF l.elems = <<>>
    THEN [elems |-> <<t_data>>, m_size |-> 1]
    ELSE [elems |-> Append(l.elems, t_data), m_size |-> l.m_size + 1]

List_push_front(l, t_data) ==
    IF l.elems = <<>>
    THEN [elems |-> <<t_data>>, m_size |-> 1]
    ELSE [elems |-> <<t_data>> \o l.elems, m_size |-> l.m_size + 1]

List_pop_back(l) ==
    IF l.elems = <<>> THEN l
    ELSE IF Len(l.elems) = 1 THEN [elems |-> <<>>, m_size |-> 0]
    ELSE [elems |-> SubSeq(l.elems, 1, Len(l.elems) - 1), m_size |-> l.m_size - 1]

List_pop_front(l) ==
    IF l.elems = <<>> THEN l
    ELSE IF Len(l.elems) = 1 THEN [elems |-> <<>>, m_size |-> 0]
    ELSE [elems |-> Tail(l.elems), m_size |-> l.m_size - 1]

\* reverse lines 451-459: the new chain takes the last element of what is
\* left of the old one, which pop_back then removes, until nothing is left.
RECURSIVE List_reverse_while(_, _)
List_reverse_while(l, newElems) ==
    IF l.elems = <<>> THEN [old |-> l, newElems |-> newElems]
    ELSE List_reverse_while(List_pop_back(l), Append(newElems, l.elems[Len(l.elems)]))

\* reverse: m_pRoot and m_pLast are set to the new chain; m_size is what
\* the calls of pop_back left.
List_reverse(l) ==
    IF l.elems = <<>> \/ l.m_size = 1 THEN l
    ELSE LET w == List_reverse_while(List_pop_back(l), <<l.elems[Len(l.elems)]>>)
         IN  [elems |-> w.newElems, m_size |-> w.old.m_size]

\* What following m_pNext past the end of the chain can give: the read of
\* a null pointer is undefined, the build may stop the program or hand
\* back any value.
Crash == [kind |-> "crash", value |-> 0]
Undefined == {Crash} \cup {Value(v) : v \in ListValues}

\* at(t_index): the set of outcomes the call can have.
List_at(l, t_index) ==
    IF l.elems = <<>> \/ ~SizeLess(t_index, l.m_size) THEN {OutOfRange}
    ELSE IF t_index < Len(l.elems) THEN {Value(l.elems[t_index + 1])}
    ELSE Undefined

\* operator[](t_index): as at, without the test of m_pRoot.
List_index(l, t_index) ==
    IF ~SizeLess(t_index, l.m_size) THEN {OutOfRange}
    ELSE IF t_index < Len(l.elems) THEN {Value(l.elems[t_index + 1])}
    ELSE Undefined

\* The program stopped by a fault, and what a mutator that reads or writes
\* through a null pointer can leave: the fault, or any list at all.
Crashed == [elems |-> <<>>, m_size |-> 0, dead |-> TRUE]
ListStates ==
    {[elems |-> e, m_size |-> n] :
        e \in UNION {[1..k -> ListValues] : k \in 0..MaxListLen},
        n \in (0 - MaxListLen)..MaxListLen}
UndefinedList == {Crashed} \cup ListStates

\* The outcome of a mutator: the list left, whether it threw, the line of
\* the statement that ended it.
ListOutcome(l, err, line) == [l |-> l, err |-> err, line |-> line]

\* insert_after(t_data, t_index): the set of outcomes the call can have.
\* Line 339 writes through newNode->m_pNext, which is null when current is
\* the last node; lines 338 reads through current, which is null when the
\* chain is shorter than t_index + 1.
List_insert_after(l, t_data, t_index) ==
    IF ~SizeLess(t_index, l.m_size) THEN {ListOutcome(l, TRUE, 310)}
    ELSE IF l.elems = <<>> THEN {ListOutcome(l, FALSE, 314)}
    ELSE IF t_index = l.m_size - 1
         THEN {ListOutcome(List_push_back(l, t_data), FALSE, 320)}
    ELSE IF t_index + 1 < Len(l.elems)
         THEN {ListOutcome([elems |-> SubSeq(l.elems, 1, t_index + 1) \o <<t_data>>
                                          \o SubSeq(l.elems, t_index + 2, Len(l.elems)),
                            m_size |-> l.m_size + 1], FALSE, 342)}
    ELSE {ListOutcome(u, FALSE, IF t_index + 1 = Len(l.elems) THEN 339 ELSE 338) :
              u \in UndefinedList}

\* erase(t_data): removes the first element equal to t_data.
List_erase(l, t_data) ==
    LET k == FirstIndex(l.elems, t_data) IN
    IF l.elems = <<>> THEN ListOutcome(l, FALSE, 356)
    ELSE IF k = 1 THEN ListOutcome(List_pop_front(l), FALSE, 362)
    ELSE IF k = 0 THEN ListOutcome(l, FALSE, 390)
    ELSE IF k = Len(l.elems) THEN ListOutcome(List_pop_back(l), FALSE, 371)
    ELSE ListOutcome([elems |-> SubSeq(l.elems, 1, k - 1)
                                    \o SubSeq(l.elems, k + 1, Len(l.elems)),
                      m_size |-> l.m_size - 1], FALSE, 390)

\* erase_all lines 408-410 and 413-415: pop while the end element matches.
RECURSIVE List_erase_all_front(_, _)
List_erase_all_front(l, t_data) ==
    IF l.elems # <<>> /\ Head(l.elems) = t_data
    THEN List_erase_all_front(List_pop_front(l), t_data)
    ELSE l

RECURSIVE List_erase_all_back(_, _)
List_erase_all_back(l, t_data) ==
    IF l.elems # <<>> /\ l.elems[Len(l.elems)] = t_data
    THEN List_erase_all_back(List_pop_back(l), t_data)
    ELSE l

\* erase_all lines 418-432: unlinks every matching node after current.
RECURSIVE List_erase_all_while(_, _, _)
List_erase_all_while(l, t_data, current) ==
    IF current >= Len(l.elems) THEN l
    ELSE IF l.elems[current + 1] = t_data
         THEN List_erase_all_while(
                  [elems |-> SubSeq(l.elems, 1, current)
                                 \o SubSeq(l.elems, current + 2, Len(l.elems)),
                   m_size |-> l.m_size - 1], t_data, current)
    ELSE List_erase_all_while(l, t_data, current + 1)

List_erase_all(l, t_data) ==
    IF l.elems = <<>> THEN ListOutcome(l, FALSE, 404)
    ELSE LET f == List_erase_all_front(l, t_data)
             b == List_erase_all_back(f, t_data)
         IN  ListOutcome(List_erase_all_while(b, t_data, 1), FALSE, 433)

-----------------------------------------------------------------------------
(* The turn-based battle: BattleManager, its TurnSystem, the entities and  *)
(* the skills.  An entity is its TransformComponent (team) and its         *)
(* HealthComponent (stats, isAlive); entities are named by their position  *)
(* in allEntities, 0 is the null reference.  battleEntities, the copy that *)
(* initializeBattle takes, is the first nBattle entities of allEntities,   *)
(* which only grows at its end.  turnQueue is the set of the TurnOrder     *)
(* entries the priority queue holds.                                       *)

MaxEntities == 3

Max(a, b) == IF a > b THEN a ELSE b
Min(a, b) == IF a < b THEN a ELSE b

\* Stats(hp, atk, def, spd, mp).
Stats(hp, atk, def, spd, mp) ==
    [health |-> hp, maxHealth |-> hp, attack |-> atk, defense |-> def,
     speed |-> spd, mana |-> mp, maxMana |-> mp]

\* The stats the battle program gives to the entities it adds.
StatChoices == {Stats(2, 1, 0, 2, 15), Stats(3, 2, 2, 3, 10)}

createEntity(team, stats) == [team |-> team, stats |-> stats, isAlive |-> TRUE]

BattleManager_new ==
    [allEntities |-> <<>>, nBattle |-> 0, turnQueue |-> {},
     currentState |-> "TURN_START", currentActor |-> 0]

\* A faulty operator< that compares the speeds first; C24 tells it from
\* TurnOrder_less.
TurnOrder_less_speed(a, b) ==
    IF a.speed # b.speed THEN a.speed < b.speed
    ELSE a.priority < b.priority

\* TurnOrder::operator<.
TurnOrder_less(a, b) ==
    IF a.priority # b.priority THEN a.priority < b.priority
    ELSE a.speed < b.speed

\* turnQueue.top(): an entry that is less than no other; which one of
\* several such entries the heap holds on top is not fixed by the code.
Top(q) == {o \in q : \A p \in q : ~TurnOrder_less(o, p)}

calculateTurnOrder(b) ==
    [b EXCEPT !.turnQueue =
        {[entity |-> e, speed |-> b.allEntities[e].stats.speed,
          priority |-> IF b.allEntities[e].team = "PLAYER" THEN 1 ELSE 0] :
            e \in {x \in 1..b.nBattle : b.allEntities[x].isAlive}}]

\* The turn-start handler setupEventHandlers subscribes: the current actor
\* regains 5 mana.
executeTurnStartEvents(b) ==
    IF b.currentActor = 0 THEN b
    ELSE [b EXCEPT !.allEntities[b.currentActor].stats.mana =
                       Min(b.allEntities[b.currentActor].stats.maxMana, @ + 5)]

updateEntityStatus(b) ==
    [b EXCEPT !.allEntities =
        [e \in 1..Len(b.allEntities) |->
            IF e <= b.nBattle /\ b.allEntities[e].stats.health <= 0
            THEN [b.allEntities[e] EXCEPT !.isAlive = FALSE, !.stats.health = 0]
            ELSE b.allEntities[e]]]

isBattleActive(b) == b.currentState \notin {"VICTORY", "DEFEAT"}

RECURSIVE setState(_, _)

\* A faulty startNextTurn that leaves the actor's entry in the queue (no
\* turnQueue.pop()); C37 tells it from startNextTurn.
startNextTurn_no_pop(b) ==
    LET b1 == IF b.turnQueue = {} THEN calculateTurnOrder(b) ELSE b IN
    IF b1.turnQueue = {} THEN setState(b1, "VICTORY")
    ELSE {LET b2 == [b1 EXCEPT !.currentActor = o.entity]
              b3 == updateEntityStatus(executeTurnStartEvents(b2))
          IN  [b3 EXCEPT !.currentState =
                  IF b3.allEntities[o.entity].team = "PLAYER"
                  THEN "PLAYER_CHOICE" ELSE "ENEMY_THINKING"] :
          o \in Top(b1.turnQueue)}

\* Each of these gives the set of the states the call can leave.
startNextTurn(b) ==
    LET b1 == IF b.turnQueue = {} THEN calculateTurnOrder(b) ELSE b IN
    IF b1.turnQueue = {} THEN setState(b1, "VICTORY")
    ELSE {LET b2 == [b1 EXCEPT !.currentActor = o.entity,
                               !.turnQueue = @ \ {o}]
              b3 == updateEntityStatus(executeTurnStartEvents(b2))
          IN  [b3 EXCEPT !.currentState =
                  IF b3.allEntities[o.entity].team = "PLAYER"
                  THEN "PLAYER_CHOICE" ELSE "ENEMY_THINKING"] :
          o \in Top(b1.turnQueue)}

checkBattleConditions(b) ==
    LET alive(team) == \E e \in 1..b.nBattle :
                           /\ b.allEntities[e].isAlive
                           /\ b.allEntities[e].team = team
    IN  IF ~alive("PLAYER") THEN setState(b, "DEFEAT")
        ELSE IF ~alive("ENEMY") THEN setState(b, "VICTORY")
        ELSE {b}

\* A faulty endCurrentTurn that starts no next turn; C36 tells it from
\* endCurrentTurn.
endCurrentTurn_stops(b) == checkBattleConditions(b)

\* No turn-end handler is subscribed.
endCurrentTurn(b) ==
    UNION {IF isBattleActive(c) THEN startNextTurn(c) ELSE {c} :
               c \in checkBattleConditions(b)}

setState(b, newState) ==
    IF newState \in {"ENEMY_THINKING", "ACTION_EXECUTE", "TURN_END"}
    THEN endCurrentTurn([b EXCEPT !.currentState = "TURN_END"])
    ELSE {[b EXCEPT !.currentState = newState]}

initializeBattle(b) ==
    startNextTurn(calculateTurnOrder([b EXCEPT !.nBattle = Len(b.allEntities)]))

\* The skills of availableSkills: what execute(user, target) leaves of the
\* entities.
SkillNames == {"attack", "heal", "fireball"}

getCost(skillName) ==
    IF skillName = "heal" THEN 10 ELSE IF skillName = "fireball" THEN 15 ELSE 0

createAttackSkill(ents, user, target) ==
    IF ents[target].isAlive
    THEN LET damage == Max(1, ents[user].stats.attack
                                  - (ents[target].stats.defense \div 2))
             hit == [ents EXCEPT ![target].stats.health = @ - damage]
         IN  IF hit[target].stats.health <= 0
             THEN [hit EXCEPT ![target].isAlive = FALSE]
             ELSE hit
    ELSE ents

createHealSkill(ents, user, target) ==
    IF ents[user].stats.mana >= 10
    THEN LET heal == ents[target].stats.maxHealth \div 3
             healed == [ents EXCEPT ![target].stats.health =
                            Min(ents[target].stats.maxHealth, @ + heal)]
         IN  [healed EXCEPT ![user].stats.mana = @ - 10]
    ELSE ents

\* The fireball of initializeSkills.
fireball(ents, user, target) ==
    IF ents[user].stats.mana >= 15
    THEN LET damage == Max(1, ents[user].stats.attack * 2
                                  - (ents[target].stats.defense \div 2))
             hit == [ents EXCEPT ![target].stats.health = @ - damage]
         IN  [hit EXCEPT ![user].stats.mana = @ - 15]
    ELSE ents

execute(skillName, ents, user, target) ==
    IF skillName = "attack" THEN createAttackSkill(ents, user, target)
    ELSE IF skillName = "heal" THEN createHealSkill(ents, user, target)
    ELSE fireball(ents, user, target)

\* How a call of the manager ends: the state left, whether it threw, the
\* line it left by, and in acted the state in which the call ended the
\* turn with setState(ACTION_EXECUTE), if it did.
BattleOutcome(b, err, line, acted) ==
    [b |-> b, err |-> err, line |-> line, acted |-> acted]

\* A faulty executePlayerAction without the test of the battle state
\* (lines 90-93); C35 tells it from executePlayerAction.
executePlayerAction_unguarded(b, skillName, target) ==
    IF skillName \notin SkillNames \/ b.currentActor = 0
    THEN {BattleOutcome(b, FALSE, 100, <<>>)}
    ELSE IF target # 0 /\ b.allEntities[target].isAlive
         THEN IF getCost(skillName) > 0
                  /\ b.allEntities[b.currentActor].stats.mana < getCost(skillName)
              THEN {BattleOutcome(b, FALSE, 109, <<>>)}
              ELSE LET a == [b EXCEPT !.allEntities =
                                execute(skillName, @, b.currentActor, target)]
                   IN  {BattleOutcome(c, FALSE, 117, <<a>>) :
                            c \in setState(a, "ACTION_EXECUTE")}
    ELSE {BattleOutcome(b, FALSE, 117, <<>>)}

\* executePlayerAction(skillName, target): the set of outcomes.
executePlayerAction(b, skillName, target) ==
    IF b.currentState # "PLAYER_CHOICE" THEN {BattleOutcome(b, FALSE, 92, <<>>)}
    ELSE IF skillName \notin SkillNames THEN {BattleOutcome(b, FALSE, 100, <<>>)}
    ELSE IF target # 0 /\ b.allEntities[target].isAlive
         THEN IF getCost(skillName) > 0
                  /\ b.allEntities[b.currentActor].stats.mana < getCost(skillName)
              THEN {BattleOutcome(b, FALSE, 109, <<>>)}
              ELSE LET a == [b EXCEPT !.allEntities =
                                execute(skillName, @, b.currentActor, target)]
                   IN  {BattleOutcome(c, FALSE, 117, <<a>>) :
                            c \in setState(a, "ACTION_EXECUTE")}
    ELSE {BattleOutcome(b, FALSE, 117, <<>>)}

\* getPlayerEntities: the living players of allEntities, in order.
getPlayerEntities(b) ==
    {e \in 1..Len(b.allEntities) :
        b.allEntities[e].team = "PLAYER" /\ b.allEntities[e].isAlive}

\* update lines 132-140: the first living player of the least health, 0
\* when no player lives.
update_target(b) ==
    LET players == getPlayerEntities(b) IN
    IF players = {} THEN 0
    ELSE CHOOSE t \in players :
             \A p \in players :
                 \/ b.allEntities[t].stats.health < b.allEntities[p].stats.health
                 \/ (b.allEntities[t].stats.health = b.allEntities[p].stats.health
                         /\ t <= p)

\* update(): the set of outcomes; the random draw of line 151 may pick
\* fireball when the enemy has the mana, and attack always.
update(b) ==
    IF b.currentState # "ENEMY_THINKING" THEN {BattleOutcome(b, FALSE, 164, <<>>)}
    ELSE LET enemy == b.currentActor
             target == update_target(b)
             skills == {"attack"} \cup
                           (IF b.allEntities[enemy].stats.mana >= 15
                            THEN {"fireball"} ELSE {})
             acted == IF target = 0 THEN {b}
                      ELSE {[b EXCEPT !.allEntities = execute(sk, @, enemy, target)] :
                                sk \in skills}
         IN  UNION {{BattleOutcome(c, FALSE, 164, <<a>>) :
                        c \in setState(a, "ACTION_EXECUTE")} : a \in acted}

-----------------------------------------------------------------------------
(* Graph<T>: private methods.                                              *)

\* generateNodeGraph: the graph with one more node, which is Len(g.data) + 1.
generateNodeGraph(g, t_data) ==
    [g EXCEPT !.data = Append(@, t_data),
              !.kids = Append(@, <<>>),
              !.vis = Append(@, FALSE)]

\* reset: clears the flag of every node of the list t_children.
RECURSIVE reset_for(_, _, _)
reset_for(vis, t_children, i) ==
    IF i >= size(t_children) THEN vis
    ELSE reset_for([vis EXCEPT ![at(t_children, i)] = FALSE], t_children, i + 1)

\* A faulty reset that clears no flag; C32 tells it from reset.
reset_nothing(root, vis, t_children) == vis

reset(root, vis, t_children) ==
    IF root = NULL THEN vis ELSE reset_for(vis, t_children, 0)

(* The locals of a traversal loop.  kids and vis are the graph's child     *)
(* lists and flags as the loop changes them; fr is the frontier            *)
(* (searchQueue, searchStack, ...); vn is visitedNodes; ret the value to   *)
(* return; cnt is parentCount; lines the text written and popped the nodes *)
(* a printing traversal took off its frontier, in order.                   *)
Frame(kids, vis, fr, vn) ==
    [kids |-> kids, vis |-> vis, fr |-> fr, vn |-> vn, ret |-> NULL,
     done |-> FALSE, cnt |-> 0, lines |-> <<>>, popped |-> <<>>]

\* No loop is running.
NoFrame == Frame(<<>>, <<>>, Stack_new, <<>>)

\* The frontier entry a loop starts from: m_pRoot pushed and flagged.
\* BFS lines 325-329: visitedNodes starts empty.
BFS_init(g) ==
    Frame(g.kids, [g.vis EXCEPT ![g.root] = TRUE], enqueue(Queue_new, g.root), <<>>)

\* A faulty BFS inner loop that stops one child short (i + 1 < size); C3
\* tells it from BFS_for.
RECURSIVE BFS_for_short(_, _, _)
BFS_for_short(st, currentNode, i) ==
    IF i + 1 >= size(st.kids[currentNode]) THEN st
    ELSE LET child == at(st.kids[currentNode], i) IN
         IF ~st.vis[child]
         THEN BFS_for_short([st EXCEPT !.fr = enqueue(@, child),
                                       !.vis[child] = TRUE,
                                       !.vn = push_back(@, child)],
                            currentNode, i + 1)
         ELSE BFS_for_short(st, currentNode, i + 1)

\* A faulty BFS inner loop that enqueues an unvisited child without
\* flagging it; C30 tells it from BFS_for.
RECURSIVE BFS_for_unflagged(_, _, _)
BFS_for_unflagged(st, currentNode, i) ==
    IF i >= size(st.kids[currentNode]) THEN st
    ELSE LET child == at(st.kids[currentNode], i) IN
         IF ~st.vis[child]
         THEN BFS_for_unflagged([st EXCEPT !.fr = enqueue(@, child),
                                           !.vn = push_back(@, child)],
                                currentNode, i + 1)
         ELSE BFS_for_unflagged(st, currentNode, i + 1)

\* BFS lines 341-350: the children of currentNode from index i on.
RECURSIVE BFS_for(_, _, _)
BFS_for(st, currentNode, i) ==
    IF i >= size(st.kids[currentNode]) THEN st
    ELSE LET child == at(st.kids[currentNode], i) IN
         IF ~st.vis[child]
         THEN BFS_for([st EXCEPT !.fr = enqueue(@, child),
                                 !.vis[child] = TRUE,
                                 !.vn = push_back(@, child)],
                      currentNode, i + 1)
         ELSE BFS_for(st, currentNode, i + 1)

\* A faulty BFS iteration that scans the children before it compares the
\* node taken off the queue; C19 tells it from BFS_body.
BFS_body_scan_first(root, data, t_data, st) ==
    LET d == dequeue(st.fr)
        currentNode == d.value
        st1 == BFS_for([st EXCEPT !.fr = d.rest], currentNode, 0)
    IN  IF data[currentNode] = t_data
        THEN [st1 EXCEPT !.vis = reset(root, st1.vis, st1.vn),
                         !.ret = currentNode,
                         !.done = TRUE]
        ELSE st1

\* BFS lines 332-350: one iteration of the while loop.
BFS_body(root, data, t_data, st) ==
    LET d == dequeue(st.fr)
        currentNode == d.value
        st1 == [st EXCEPT !.fr = d.rest]
    IN  IF data[currentNode] = t_data
        THEN [st1 EXCEPT !.vis = reset(root, st1.vis, st1.vn),
                         !.ret = currentNode,
                         !.done = TRUE]
        ELSE BFS_for(st1, currentNode, 0)

\* BFS lines 353-354: the loop ran out of nodes.
BFS_exit(root, st) ==
    IF st.done THEN st
    ELSE [st EXCEPT !.vis = reset(root, st.vis, st.vn), !.ret = NULL, !.done = TRUE]

RECURSIVE BFS_while(_, _, _, _)
BFS_while(root, data, t_data, st) ==
    IF st.done \/ Queue_empty(st.fr) THEN BFS_exit(root, st)
    ELSE BFS_while(root, data, t_data, BFS_body(root, data, t_data, st))

\* BFS: the frame at return; ret is the node found or NULL, vis the flags left.
BFS(g, t_data) ==
    IF g.root = NULL
    THEN [Frame(g.kids, g.vis, Queue_new, <<>>) EXCEPT !.done = TRUE]
    ELSE BFS_while(g.root, g.data, t_data, BFS_init(g))

\* DFS lines 372-377: m_pRoot is pushed on visitedNodes as well.
DFS_init(g) ==
    Frame(g.kids, [g.vis EXCEPT ![g.root] = TRUE], enstack(Stack_new, g.root),
          push_back(<<>>, g.root))

\* DFS lines 388-397.
RECURSIVE DFS_for(_, _, _)
DFS_for(st, currentNode, i) ==
    IF i >= size(st.kids[currentNode]) THEN st
    ELSE LET child == at(st.kids[currentNode], i) IN
         IF ~st.vis[child]
         THEN DFS_for([st EXCEPT !.fr = enstack(@, child),
                                 !.vis[child] = TRUE,
                                 !.vn = push_back(@, child)],
                      currentNode, i + 1)
         ELSE DFS_for(st, currentNode, i + 1)

\* A faulty DFS iteration that reads the top of the stack without taking
\* it off; C2 tells it from DFS_body.
DFS_body_peek(root, data, t_data, st) ==
    LET currentNode == destack(st.fr).value
    IN  IF data[currentNode] = t_data
        THEN [st EXCEPT !.vis = reset(root, st.vis, st.vn),
                        !.ret = currentNode,
                        !.done = TRUE]
        ELSE DFS_for(st, currentNode, 0)

\* DFS lines 380-397: one iteration of the while loop.
DFS_body(root, data, t_data, st) ==
    LET d == destack(st.fr)
        currentNode == d.value
        st1 == [st EXCEPT !.fr = d.rest]
    IN  IF data[currentNode] = t_data
        THEN [st1 EXCEPT !.vis = reset(root, st1.vis, st1.vn),
                         !.ret = currentNode,
                         !.done = TRUE]
        ELSE DFS_for(st1, currentNode, 0)

\* DFS lines 400-401.
DFS_exit(root, st) ==
    IF st.done THEN st
    ELSE [st EXCEPT !.vis = reset(root, st.vis, st.vn), !.ret = NULL, !.done = TRUE]

RECURSIVE DFS_while(_, _, _, _)
DFS_while(root, data, t_data, st) ==
    IF st.done \/ Stack_empty(st.fr) THEN DFS_exit(root, st)
    ELSE DFS_while(root, data, t_data, DFS_body(root, data, t_data, st))

DFS(g, t_data) ==
    IF g.root = NULL
    THEN [Frame(g.kids, g.vis, Stack_new, <<>>) EXCEPT !.done = TRUE]
    ELSE DFS_while(g.root, g.data, t_data, DFS_init(g))

\* parentsDFS lines 439-444 (called on a non-empty graph only).
parentsDFS_init(g) ==
    Frame(g.kids, [g.vis EXCEPT ![g.root] = TRUE], enstack(Stack_new, g.root), <<>>)

\* A faulty parent count that counts a child only when it is first
\* visited; C7 tells it from parentsDFS_for.
RECURSIVE parentsDFS_for_once(_, _, _, _, _)
parentsDFS_for_once(data, t_data, st, currentNode, i) ==
    IF i >= size(st.kids[currentNode]) THEN st
    ELSE LET child == at(st.kids[currentNode], i)
             st1 == IF ~st.vis[child]
                    THEN [st EXCEPT !.fr = enstack(@, child),
                                    !.vis[child] = TRUE,
                                    !.vn = push_back(@, child),
                                    !.cnt = IF data[child] = t_data THEN @ + 1 ELSE @]
                    ELSE st
         IN  parentsDFS_for_once(data, t_data, st1, currentNode, i + 1)

\* parentsDFS lines 449-464.
RECURSIVE parentsDFS_for(_, _, _, _, _)
parentsDFS_for(data, t_data, st, currentNode, i) ==
    IF i >= size(st.kids[currentNode]) THEN st
    ELSE LET child == at(st.kids[currentNode], i)
             st1 == IF ~st.vis[child]
                    THEN [st EXCEPT !.fr = enstack(@, child),
                                    !.vis[child] = TRUE,
                                    !.vn = push_back(@, child)]
                    ELSE st
             st2 == IF data[child] = t_data
                    THEN [st1 EXCEPT !.cnt = @ + 1]
                    ELSE st1
         IN  parentsDFS_for(data, t_data, st2, currentNode, i + 1)

\* parentsDFS lines 447-464: one iteration of the while loop.
parentsDFS_body(root, data, t_data, st) ==
    LET d == destack(st.fr)
        currentNode == d.value
        st1 == [st EXCEPT !.fr = d.rest]
    IN  parentsDFS_for(data, t_data, st1, currentNode, 0)

\* parentsDFS lines 467-468.
parentsDFS_exit(root, st) ==
    [st EXCEPT !.vis = reset(root, st.vis, st.vn), !.ret = st.cnt, !.done = TRUE]

RECURSIVE parentsDFS_while(_, _, _, _)
parentsDFS_while(root, data, t_data, st) ==
    IF Stack_empty(st.fr) THEN parentsDFS_exit(root, st)
    ELSE parentsDFS_while(root, data, t_data, parentsDFS_body(root, data, t_data, st))

\* parentsDFS: ret (and cnt) is the count returned.
parentsDFS(g, t_data) ==
    parentsDFS_while(g.root, g.data, t_data, parentsDFS_init(g))

-----------------------------------------------------------------------------
(* Graph<T>: printing traversals.                                          *)

\* The text with more text written to its last line.
Write(lines, text) ==
    [lines EXCEPT ![Len(lines)] = @ \o text]

\* traverseBFS lines 527-531.
traverseBFS_init(g) ==
    Frame(g.kids, [g.vis EXCEPT ![g.root] = TRUE], enqueue(Queue_new, g.root), <<>>)

\* A faulty printing loop that writes a child only when it is first
\* visited; C10 tells it from traverseBFS_for.
RECURSIVE traverseBFS_for_new(_, _, _, _)
traverseBFS_for_new(data, st, currentNode, i) ==
    IF i >= size(st.kids[currentNode]) THEN st
    ELSE LET child == at(st.kids[currentNode], i)
             st1 == IF ~st.vis[child]
                    THEN [st EXCEPT !.fr = enqueue(@, child),
                                    !.vis[child] = TRUE,
                                    !.vn = push_back(@, child),
                                    !.lines = Write(@, ToString(data[child]))]
                    ELSE st
             st3 == IF i < size(st.kids[currentNode]) - 1
                    THEN [st1 EXCEPT !.lines = Write(@, ", ")]
                    ELSE st1
         IN  traverseBFS_for_new(data, st3, currentNode, i + 1)

\* traverseBFS lines 539-554.
RECURSIVE traverseBFS_for(_, _, _, _)
traverseBFS_for(data, st, currentNode, i) ==
    IF i >= size(st.kids[currentNode]) THEN st
    ELSE LET child == at(st.kids[currentNode], i)
             st1 == IF ~st.vis[child]
                    THEN [st EXCEPT !.fr = enqueue(@, child),
                                    !.vis[child] = TRUE,
                                    !.vn = push_back(@, child)]
                    ELSE st
             st2 == [st1 EXCEPT !.lines = Write(@, ToString(data[child]))]
             st3 == IF i < size(st.kids[currentNode]) - 1
                    THEN [st2 EXCEPT !.lines = Write(@, ", ")]
                    ELSE st2
         IN  traverseBFS_for(data, st3, currentNode, i + 1)

\* A faulty traverseBFS iteration that takes the node enqueued last; C29
\* tells it from traverseBFS_body.
traverseBFS_body_newest(data, st) ==
    LET d == dequeue_newest(st.fr)
        currentNode == d.value
        st1 == [st EXCEPT !.fr = d.rest,
                          !.popped = Append(@, currentNode),
                          !.lines = Append(@, ToString(data[currentNode]) \o "(")]
        st2 == traverseBFS_for(data, st1, currentNode, 0)
    IN  [st2 EXCEPT !.lines = Write(@, ")")]

\* traverseBFS lines 534-556: one iteration of the while loop.
traverseBFS_body(data, st) ==
    LET d == dequeue(st.fr)
        currentNode == d.value
        st1 == [st EXCEPT !.fr = d.rest,
                          !.popped = Append(@, currentNode),
                          !.lines = Append(@, ToString(data[currentNode]) \o "(")]
        st2 == traverseBFS_for(data, st1, currentNode, 0)
    IN  [st2 EXCEPT !.lines = Write(@, ")")]

\* traverseBFS line 559.
traverseBFS_exit(root, st) ==
    [st EXCEPT !.vis = reset(root, st.vis, st.vn), !.done = TRUE]

RECURSIVE traverseBFS_while(_, _, _)
traverseBFS_while(root, data, st) ==
    IF Queue_empty(st.fr) THEN traverseBFS_exit(root, st)
    ELSE traverseBFS_while(root, data, traverseBFS_body(data, st))

\* A faulty traverseBFS that writes an empty pair of brackets for an empty
\* graph; C18 tells it from traverseBFS.
traverseBFS_brackets(g) ==
    IF g.root = NULL
    THEN [Frame(g.kids, g.vis, Queue_new, <<>>) EXCEPT !.done = TRUE, !.lines = <<"()">>]
    ELSE traverseBFS_while(g.root, g.data, traverseBFS_init(g))

\* traverseBFS: lines is the text written, vis the flags left.
traverseBFS(g) ==
    IF g.root = NULL
    THEN [Frame(g.kids, g.vis, Queue_new, <<>>) EXCEPT !.done = TRUE]
    ELSE traverseBFS_while(g.root, g.data, traverseBFS_init(g))

\* traverseDFS lines 575-579.
traverseDFS_init(g) ==
    Frame(g.kids, [g.vis EXCEPT ![g.root] = TRUE], enstack(Stack_new, g.root), <<>>)

\* traverseDFS lines 587-602.
RECURSIVE traverseDFS_for(_, _, _, _)
traverseDFS_for(data, st, currentNode, i) ==
    IF i >= size(st.kids[currentNode]) THEN st
    ELSE LET child == at(st.kids[currentNode], i)
             st1 == IF ~st.vis[child]
                    THEN [st EXCEPT !.fr = enstack(@, child),
                                    !.vis[child] = TRUE,
                                    !.vn = push_back(@, child)]
                    ELSE st
             st2 == [st1 EXCEPT !.lines = Write(@, ToString(data[child]))]
             st3 == IF i < size(st.kids[currentNode]) - 1
                    THEN [st2 EXCEPT !.lines = Write(@, ", ")]
                    ELSE st2
         IN  traverseDFS_for(data, st3, currentNode, i + 1)

\* traverseDFS lines 582-604: one iteration of the while loop.
traverseDFS_body(data, st) ==
    LET d == destack(st.fr)
        currentNode == d.value
        st1 == [st EXCEPT !.fr = d.rest,
                          !.popped = Append(@, currentNode),
                          !.lines = Append(@, ToString(data[currentNode]) \o "(")]
        st2 == traverseDFS_for(data, st1, currentNode, 0)
    IN  [st2 EXCEPT !.lines = Write(@, ")")]

\* traverseDFS line 607.
traverseDFS_exit(root, st) ==
    [st EXCEPT !.vis = reset(root, st.vis, st.vn), !.done = TRUE]

RECURSIVE traverseDFS_while(_, _, _)
traverseDFS_while(root, data, st) ==
    IF Stack_empty(st.fr) THEN traverseDFS_exit(root, st)
    ELSE traverseDFS_while(root, data, traverseDFS_body(data, st))

traverseDFS(g) ==
    IF g.root = NULL
    THEN [Frame(g.kids, g.vis, Stack_new, <<>>) EXCEPT !.done = TRUE]
    ELSE traverseDFS_while(g.root, g.data, traverseDFS_init(g))

-----------------------------------------------------------------------------
(* Graph<T>: mutators.  Each yields the graph left behind and whether the  *)
(* call threw (err).                                                       *)

(* line is the source line of the return or throw statement that ended it. *)
Returned(g, line) == [g |-> g, err |-> FALSE, line |-> line]
Threw(g, line) == [g |-> g, err |-> TRUE, line |-> line]

\* A faulty link step that always allocates a node; C5 and C31 tell it from
\* insert_found.
insert_found_fresh(g, parentNode, t_newData, existingNode) ==
    LET g2 == generateNodeGraph(g, t_newData)
        newNode == Len(g2.data)
    IN  Returned([g2 EXCEPT !.kids[parentNode] = push_back(@, newNode)], 644)

\* insert lines 636-643: link the node the DFS found, or a new one.
insert_found(g, parentNode, t_newData, existingNode) ==
    IF existingNode # NULL
    THEN Returned([g EXCEPT !.kids[parentNode] = push_back(@, existingNode)], 638)
    ELSE LET g2 == generateNodeGraph(g, t_newData)
             newNode == Len(g2.data)
         IN  Returned([g2 EXCEPT !.kids[parentNode] = push_back(@, newNode)], 644)

\* insert lines 634-643, once parentNode is known.
insert_link(g, parentNode, t_newData) ==
    LET d == DFS(g, t_newData)
    IN  insert_found([g EXCEPT !.vis = d.vis], parentNode, t_newData, d.ret)

\* A faulty insert that links under the root when the parent is not found;
\* C14 tells it from insert.
insert_default_root(g, t_parent, t_newData) ==
    IF g.root = NULL THEN Threw(g, 625)
    ELSE LET b == BFS(g, t_parent)
             g1 == [g EXCEPT !.vis = b.vis]
         IN  insert_link(g1, IF b.ret = NULL THEN g.root ELSE b.ret, t_newData)

\* A faulty insert that looks the parent up depth-first; C4 tells it from
\* insert.
insert_depth_first(g, t_parent, t_newData) ==
    IF g.root = NULL THEN Threw(g, 625)
    ELSE LET b == DFS(g, t_parent)
             g1 == [g EXCEPT !.vis = b.vis]
         IN  IF b.ret = NULL THEN Threw(g1, 631)
             ELSE insert_link(g1, b.ret, t_newData)

\* insert lines 622-644.
insert(g, t_parent, t_newData) ==
    IF g.root = NULL THEN Threw(g, 625)
    ELSE LET b == BFS(g, t_parent)
             g1 == [g EXCEPT !.vis = b.vis]
         IN  IF b.ret = NULL THEN Threw(g1, 631)
             ELSE insert_link(g1, b.ret, t_newData)

\* A faulty move loop that throws when no child carries t_data; C16 tells
\* it from swap_for.
RECURSIVE swap_for_throws(_, _, _, _, _)
swap_for_throws(g, currentParent, newParent, t_data, i) ==
    IF i >= size(g.kids[currentParent]) THEN Threw(g, 680)
    ELSE IF g.data[at(g.kids[currentParent], i)] = t_data
         THEN LET g1 == [g EXCEPT !.kids[newParent] =
                                      push_back(@, at(g.kids[currentParent], i))]
              IN  Returned([g1 EXCEPT !.kids[currentParent] =
                                          erase(@, at(g1.kids[currentParent], i))],
                           677)
         ELSE swap_for_throws(g, currentParent, newParent, t_data, i + 1)

\* A faulty move loop that goes on after a move and so moves every child
\* carrying t_data; C9 tells it from swap_for.
RECURSIVE swap_for_all(_, _, _, _, _)
swap_for_all(g, currentParent, newParent, t_data, i) ==
    IF i >= size(g.kids[currentParent]) THEN Returned(g, 680)
    ELSE IF g.data[at(g.kids[currentParent], i)] = t_data
         THEN LET g1 == [g EXCEPT !.kids[newParent] =
                                      push_back(@, at(g.kids[currentParent], i))]
                  g2 == [g1 EXCEPT !.kids[currentParent] =
                                       erase(@, at(g1.kids[currentParent], i))]
              IN  IF currentParent = newParent THEN Returned(g2, 677)
                  ELSE swap_for_all(g2, currentParent, newParent, t_data, i)
         ELSE swap_for_all(g, currentParent, newParent, t_data, i + 1)

\* swap lines 672-680: move the first child of currentParent carrying t_data.
RECURSIVE swap_for(_, _, _, _, _)
swap_for(g, currentParent, newParent, t_data, i) ==
    IF i >= size(g.kids[currentParent]) THEN Returned(g, 680)
    ELSE IF g.data[at(g.kids[currentParent], i)] = t_data
         THEN LET g1 == [g EXCEPT !.kids[newParent] =
                                      push_back(@, at(g.kids[currentParent], i))]
              IN  Returned([g1 EXCEPT !.kids[currentParent] =
                                          erase(@, at(g1.kids[currentParent], i))],
                           677)
         ELSE swap_for(g, currentParent, newParent, t_data, i + 1)

\* A faulty swap that returns silently when the new parent is not found;
\* C15 tells it from swap.
swap_lenient(g, t_currentParent, t_newParent, t_data) ==
    IF g.root = NULL THEN Threw(g, 657)
    ELSE LET b1 == BFS(g, t_currentParent)
             g1 == [g EXCEPT !.vis = b1.vis]
         IN  IF b1.ret = NULL THEN Threw(g1, 663)
             ELSE LET b2 == BFS(g1, t_newParent)
                      g2 == [g1 EXCEPT !.vis = b2.vis]
                  IN  IF b2.ret = NULL THEN Returned(g2, 668)
                      ELSE swap_for(g2, b1.ret, b2.ret, t_data, 0)

\* swap lines 654-680.
swap(g, t_currentParent, t_newParent, t_data) ==
    IF g.root = NULL THEN Threw(g, 657)
    ELSE LET b1 == BFS(g, t_currentParent)
             g1 == [g EXCEPT !.vis = b1.vis]
         IN  IF b1.ret = NULL THEN Threw(g1, 663)
             ELSE LET b2 == BFS(g1, t_newParent)
                      g2 == [g1 EXCEPT !.vis = b2.vis]
                  IN  IF b2.ret = NULL THEN Threw(g2, 668)
                      ELSE swap_for(g2, b1.ret, b2.ret, t_data, 0)

\* deleteNode lines 714-718.
deleteNode_init(g, parentCount) ==
    [Frame(g.kids, [g.vis EXCEPT ![g.root] = TRUE], enstack(Stack_new, g.root), <<>>)
        EXCEPT !.cnt = parentCount]

\* deleteNode lines 723-739: the erase ends the for loop (break).
RECURSIVE deleteNode_for(_, _, _, _, _)
deleteNode_for(data, t_data, st, currentNode, i) ==
    IF i >= size(st.kids[currentNode]) THEN st
    ELSE LET child == at(st.kids[currentNode], i)
             st1 == IF ~st.vis[child]
                    THEN [st EXCEPT !.fr = enstack(@, child),
                                    !.vis[child] = TRUE,
                                    !.vn = push_back(@, child)]
                    ELSE st
         IN  IF (st.cnt = 1) /\ (data[child] = t_data)
             THEN [st1 EXCEPT !.kids[currentNode] = erase(@, child)]
             ELSE deleteNode_for(data, t_data, st1, currentNode, i + 1)

\* deleteNode lines 721-739: one iteration of the while loop.
deleteNode_body(data, t_data, st) ==
    LET d == destack(st.fr)
        currentNode == d.value
        st1 == [st EXCEPT !.fr = d.rest]
    IN  deleteNode_for(data, t_data, st1, currentNode, 0)

\* deleteNode line 742.
deleteNode_exit(root, st) ==
    [st EXCEPT !.vis = reset(root, st.vis, st.vn), !.done = TRUE]

RECURSIVE deleteNode_while(_, _, _, _)
deleteNode_while(root, data, t_data, st) ==
    IF Stack_empty(st.fr) THEN deleteNode_exit(root, st)
    ELSE deleteNode_while(root, data, t_data, deleteNode_body(data, t_data, st))

\* A faulty safety check that tests the parent count before the root; C8
\* tells it from deleteNode_safety.
deleteNode_safety_count_first(g, t_data, parentCount) ==
    IF parentCount > 1 THEN Returned(g, 710)
    ELSE IF g.data[g.root] = t_data THEN Threw(g, 706)
    ELSE Returned(g, 0)

\* deleteNode lines 705-711, once parentCount is known: the call ends here
\* with a throw or a return, or goes on to the walk (line 0).
deleteNode_safety(g, t_data, parentCount) ==
    IF g.data[g.root] = t_data THEN Threw(g, 706)
    ELSE IF parentCount > 1 THEN Returned(g, 710)
    ELSE Returned(g, 0)

\* A faulty deleteNode that goes on to the walk whatever the number of
\* parents is; C11 tells it from deleteNode_checked.
deleteNode_checked_any(g, t_data) ==
    LET p == parentsDFS(g, t_data)
        parentCount == p.ret
        g1 == [g EXCEPT !.vis = p.vis]
    IN  IF g1.data[g1.root] = t_data THEN Threw(g1, 706)
        ELSE LET w == deleteNode_while(g1.root, g1.data, t_data,
                                       deleteNode_init(g1, parentCount))
             IN  Returned([g1 EXCEPT !.kids = w.kids, !.vis = w.vis], 743)

\* deleteNode lines 704-743, once the node is known to exist.
deleteNode_checked(g, t_data) ==
    LET p == parentsDFS(g, t_data)
        parentCount == p.ret
        g1 == [g EXCEPT !.vis = p.vis]
        s == deleteNode_safety(g1, t_data, parentCount)
    IN  IF s.line # 0 THEN s
        ELSE LET w == deleteNode_while(g1.root, g1.data, t_data,
                                       deleteNode_init(g1, parentCount))
             IN  Returned([g1 EXCEPT !.kids = w.kids, !.vis = w.vis], 743)

\* A faulty deleteNode that returns silently when the payload is not
\* found; C17 tells it from deleteNode.
deleteNode_silent(g, t_data) ==
    IF g.root = NULL THEN Threw(g, 694)
    ELSE LET d == DFS(g, t_data)
             g1 == [g EXCEPT !.vis = d.vis]
         IN  IF d.ret = NULL THEN Returned(g1, 700)
             ELSE deleteNode_checked(g1, t_data)

\* deleteNode lines 691-743.
deleteNode(g, t_data) ==
    IF g.root = NULL THEN Threw(g, 694)
    ELSE LET d == DFS(g, t_data)
             g1 == [g EXCEPT !.vis = d.vis]
         IN  IF d.ret = NULL THEN Threw(g1, 700)
             ELSE deleteNode_checked(g1, t_data)

-----------------------------------------------------------------------------
(* Graph<T>: constructors.                                                 *)

\* Graph(): the empty graph.
Graph_empty == [root |-> NULL, data |-> <<>>, kids |-> <<>>, vis |-> <<>>]

\* Graph(T t_data): a single root.
Graph_root(t_data) ==
    [generateNodeGraph(Graph_empty, t_data) EXCEPT !.root = 1]

\* Graph(T, DoubleLinkedList<T>) lines 507-509: one new node per payload.
RECURSIVE Graph_children_for(_, _, _)
Graph_children_for(g, t_children, i) ==
    IF i >= size(t_children) THEN g
    ELSE LET g1 == generateNodeGraph(g, at(t_children, i))
         IN  Graph_children_for(
                 [g1 EXCEPT !.kids[g1.root] = push_back(@, Len(g1.data))],
                 t_children, i + 1)

Graph_children(t_parent, t_children) ==
    Graph_children_for(Graph_root(t_parent), t_children, 0)

-----------------------------------------------------------------------------
(* The program: a graph is constructed, then public operations are called  *)
(* on it in any order with any payloads.                                   *)

\* The payload lists given to the third constructor.
InitLists == UNION {[1..k -> Payloads] : k \in 1..MaxInitKids}

(* Payloads are only ever compared for equality (and printed), so every    *)
(* behaviour is one whose root carries payload 1 with the payloads renamed: *)
(* the constructors are given 1 for the root, the other payloads are free.  *)
RootPayloads == {1}

Constructed ==
    {Graph_empty} \cup {Graph_root(t) : t \in RootPayloads}
        \cup {Graph_children(t, l) : t \in RootPayloads, l \in InitLists}

\* A public call as last records it: the operation, whether it threw, and
\* the source line of the statement that ended it.
Op(op, err, line) == [op |-> op, err |-> err, line |-> line]

\* No public call is in progress.
NoCall == [op |-> "none", args |-> <<>>, found |-> <<>>]

\* The model's bounds on what is allocated.
RECURSIVE Edges(_, _)
Edges(kids, n) == IF n = 0 THEN 0 ELSE Len(kids[n]) + Edges(kids, n - 1)

InBounds(g) ==
    /\ Len(g.data) <= MaxNodes
    /\ Edges(g.kids, Len(g.kids)) <= MaxEdges

SetGraph(g) ==
    /\ m_pRoot' = g.root
    /\ m_data' = g.data
    /\ m_children' = g.kids
    /\ has_been_visited' = g.vis

Init ==
    /\ \E g \in Constructed : /\ InBounds(g)
                              /\ m_pRoot = g.root
                              /\ m_data = g.data
                              /\ m_children = g.kids
                              /\ has_been_visited = g.vis
    /\ last = Op("Graph", FALSE, 0)
    /\ cout = <<>>
    /\ pc = "idle"
    /\ call = NoCall
    /\ frame = NoFrame
    /\ dll = List_new
    /\ history = <<>>
    /\ queue = Queue_new
    /\ stack = Stack_new
    /\ battle = BattleManager_new

TraverseBFS ==
    LET r == traverseBFS(G) IN
    /\ SetGraph([G EXCEPT !.vis = r.vis])
    /\ cout' = r.lines
    /\ last' = Op("traverseBFS", FALSE, IF m_pRoot = NULL THEN 524 ELSE 560)
    /\ UNCHANGED <<svars, tvars>>

TraverseDFS ==
    LET r == traverseDFS(G) IN
    /\ SetGraph([G EXCEPT !.vis = r.vis])
    /\ cout' = r.lines
    /\ last' = Op("traverseDFS", FALSE, IF m_pRoot = NULL THEN 572 ELSE 608)
    /\ UNCHANGED <<svars, tvars>>

Insert ==
    \E t_parent \in Payloads, t_newData \in Payloads :
        LET r == insert(G, t_parent, t_newData) IN
        /\ InBounds(r.g)
        /\ SetGraph(r.g)
        /\ cout' = <<>>
        /\ last' = Op("insert", r.err, r.line)
        /\ UNCHANGED <<svars, tvars>>

Swap ==
    \E t_currentParent \in Payloads, t_newParent \in Payloads, t_data \in Payloads :
        LET r == swap(G, t_currentParent, t_newParent, t_data) IN
        /\ InBounds(r.g)
        /\ SetGraph(r.g)
        /\ cout' = <<>>
        /\ last' = Op("swap", r.err, r.line)
        /\ UNCHANGED <<svars, tvars>>

DeleteNode ==
    \E t_data \in Payloads :
        LET r == deleteNode(G, t_data) IN
        /\ SetGraph(r.g)
        /\ cout' = <<>>
        /\ last' = Op("deleteNode", r.err, r.line)
        /\ UNCHANGED <<svars, tvars>>

Next == TraverseBFS \/ TraverseDFS \/ Insert \/ Swap \/ DeleteNode

Spec == Init /\ [][Next]_vars

-----------------------------------------------------------------------------
(* A program that uses one DoubleLinkedList<T> on its own: every public    *)
(* call that moves elements at the ends, reverse, and at.  last records    *)
(* the call and the line it left by.                                       *)

ListCall(l, op, err, line) ==
    /\ dll # Crashed
    /\ dll' = l
    /\ last' = Op(op, err, line)
    /\ UNCHANGED <<gvars, cout, svars, history, cvars, battle>>

ListPushBack ==
    \E t_data \in ListValues :
        /\ Len(dll.elems) < MaxListLen
        /\ ListCall(List_push_back(dll, t_data), "push_back",
                    FALSE, IF dll.elems = <<>> THEN 206 ELSE 214)

ListPushFront ==
    \E t_data \in ListValues :
        /\ Len(dll.elems) < MaxListLen
        /\ ListCall(List_push_front(dll, t_data), "push_front",
                    FALSE, IF dll.elems = <<>> THEN 230 ELSE 237)

ListPopBack ==
    ListCall(List_pop_back(dll), "pop_back", FALSE,
             IF dll.elems = <<>> THEN 249
             ELSE IF Len(dll.elems) = 1 THEN 258 ELSE 266)

ListPopFront ==
    ListCall(List_pop_front(dll), "pop_front", FALSE,
             IF dll.elems = <<>> THEN 278
             ELSE IF Len(dll.elems) = 1 THEN 287 ELSE 295)

ListReverse ==
    ListCall(List_reverse(dll), "reverse", FALSE,
             IF dll.elems = <<>> \/ dll.m_size = 1 THEN 445 ELSE 463)

ListAt ==
    \E t_index \in 0..MaxListLen :
        \E o \in List_at(dll, t_index) :
            ListCall(IF o = Crash THEN Crashed ELSE dll, "at", o.kind # "value",
                     IF o.kind = "out_of_range" THEN 176 ELSE 185)

ListIndex ==
    \E t_index \in 0..MaxListLen :
        \E o \in List_index(dll, t_index) :
            ListCall(IF o = Crash THEN Crashed ELSE dll, "operator[]",
                     o.kind # "value",
                     IF o.kind = "out_of_range" THEN 483 ELSE 490)

ListInsertAfter ==
    \E t_data \in ListValues, t_index \in 0..MaxListLen :
        /\ Len(dll.elems) < MaxListLen
        /\ \E r \in List_insert_after(dll, t_data, t_index) :
               ListCall(r.l, "insert_after", r.err, r.line)

ListErase ==
    \E t_data \in ListValues :
        LET r == List_erase(dll, t_data) IN
        ListCall(r.l, "erase", r.err, r.line)

ListEraseAll ==
    \E t_data \in ListValues :
        LET r == List_erase_all(dll, t_data) IN
        ListCall(r.l, "erase_all", r.err, r.line)

ListNext ==
    ListPushBack \/ ListPushFront \/ ListPopBack \/ ListPopFront
        \/ ListReverse \/ ListAt \/ ListIndex
        \/ ListInsertAfter \/ ListErase \/ ListEraseAll

\* The list program constructs no graph.
ListInit == Init /\ G = Graph_empty

ListSpec == ListInit /\ [][ListNext]_vars

-----------------------------------------------------------------------------
(* A program in the manner of main: it constructs Graph<int>(1) and makes  *)
(* up to MaxCalls calls, each one an insert of main's multiple-parent      *)
(* demonstration, a deleteNode, a traverseBFS or a traverseDFS.  history   *)
(* is the sequence of the calls made.                                      *)

MaxCalls == 6

ScriptInserts == {<<1, 5>>, <<1, 3>>, <<5, 2>>, <<1, 2>>}
ScriptDeletes == {2, 3}

Called(op, args) == [op |-> op, args |-> args]

ScriptInit == Init /\ G = Graph_root(1)

ScriptCall(op, args) ==
    /\ Len(history) < MaxCalls
    /\ history' = Append(history, Called(op, args))
    /\ UNCHANGED <<svars, dll, cvars, battle>>

ScriptInsert ==
    \E a \in ScriptInserts :
        LET r == insert(G, a[1], a[2]) IN
        /\ ScriptCall("insert", a)
        /\ SetGraph(r.g)
        /\ cout' = <<>>
        /\ last' = Op("insert", r.err, r.line)

ScriptDeleteNode ==
    \E t_data \in ScriptDeletes :
        LET r == deleteNode(G, t_data) IN
        /\ ScriptCall("deleteNode", <<t_data>>)
        /\ SetGraph(r.g)
        /\ cout' = <<>>
        /\ last' = Op("deleteNode", r.err, r.line)

ScriptTraverseBFS ==
    LET r == traverseBFS(G) IN
    /\ ScriptCall("traverseBFS", <<>>)
    /\ SetGraph([G EXCEPT !.vis = r.vis])
    /\ cout' = r.lines
    /\ last' = Op("traverseBFS", FALSE, IF m_pRoot = NULL THEN 524 ELSE 560)

ScriptTraverseDFS ==
    LET r == traverseDFS(G) IN
    /\ ScriptCall("traverseDFS", <<>>)
    /\ SetGraph([G EXCEPT !.vis = r.vis])
    /\ cout' = r.lines
    /\ last' = Op("traverseDFS", FALSE, IF m_pRoot = NULL THEN 572 ELSE 608)

ScriptNext ==
    ScriptInsert \/ ScriptDeleteNode \/ ScriptTraverseBFS \/ ScriptTraverseDFS

ScriptSpec == ScriptInit /\ [][ScriptNext]_vars

-----------------------------------------------------------------------------
(* Programs that use one Queue<T> and one Stack<T> on their own, making up *)
(* to MaxOps calls.  history records each call with what it answered: the  *)
(* exception or the value returned.                                        *)

MaxOps == 5
BoxValues == {1, 2}

Answered(op, args, err, value) ==
    [op |-> op, args |-> args, err |-> err, value |-> value]

\* size() of either container.
Box_size(b) == b.m_size

\* peek() of either container: the value at m_pRoot, or the exception.
Box_peek(b) == IF b.elems = <<>> THEN [err |-> TRUE, value |-> 0]
               ELSE [err |-> FALSE, value |-> Head(b.elems)]

BoxCall(op, args, err, value, line) ==
    /\ Len(history) < MaxOps
    /\ history' = Append(history, Answered(op, args, err, value))
    /\ last' = Op(op, err, line)
    /\ UNCHANGED <<gvars, cout, svars, dll, battle>>

QueueEnqueue ==
    \E t_data \in BoxValues :
        /\ BoxCall("enqueue", <<t_data>>, FALSE, 0,
                   IF Queue_empty(queue) THEN 187 ELSE 194)
        /\ queue' = enqueue(queue, t_data)
        /\ UNCHANGED stack

QueueDequeue ==
    /\ IF Queue_empty(queue)
       THEN /\ BoxCall("dequeue", <<>>, TRUE, 0, 210)
            /\ UNCHANGED queue
       ELSE LET r == dequeue(queue) IN
            /\ BoxCall("dequeue", <<>>, FALSE, r.value,
                       IF Len(queue.elems) = 1 THEN 221 ELSE 230)
            /\ queue' = r.rest
    /\ UNCHANGED stack

QueuePeek ==
    LET r == Box_peek(queue) IN
    /\ BoxCall("peek", <<>>, r.err, r.value, IF r.err THEN 152 ELSE 154)
    /\ UNCHANGED cvars

QueueNext == QueueEnqueue \/ QueueDequeue \/ QueuePeek

QueueSpec == Init /\ [][QueueNext]_vars

StackEnstack ==
    \E t_data \in BoxValues :
        /\ BoxCall("enstack", <<t_data>>, FALSE, 0,
                   IF Stack_empty(stack) THEN 1247 ELSE 1255)
        /\ stack' = enstack(stack, t_data)
        /\ UNCHANGED queue

StackDestack ==
    /\ IF Stack_empty(stack)
       THEN /\ BoxCall("destack", <<>>, TRUE, 0, 1270)
            /\ UNCHANGED stack
       ELSE LET r == destack(stack) IN
            /\ BoxCall("destack", <<>>, FALSE, r.value,
                       IF Len(stack.elems) = 1 THEN 1281 ELSE 1290)
            /\ stack' = r.rest
    /\ UNCHANGED queue

StackPeek ==
    LET r == Box_peek(stack) IN
    /\ BoxCall("peek", <<>>, r.err, r.value, IF r.err THEN 1213 ELSE 1215)
    /\ UNCHANGED cvars

StackNext == StackEnstack \/ StackDestack \/ StackPeek

StackSpec == Init /\ [][StackNext]_vars

-----------------------------------------------------------------------------
(* A program that drives one BattleManager through its public calls: it    *)
(* adds up to MaxEntities entities, starts the battle, and calls update    *)
(* and executePlayerAction with any skill name and any target.             *)

BattleCall(b, op, err, line) ==
    /\ battle' = b
    /\ last' = Op(op, err, line)
    /\ UNCHANGED <<gvars, cout, svars, dll, history, cvars>>

AddPlayer ==
    \E stats \in StatChoices :
        /\ Len(battle.allEntities) < MaxEntities
        /\ BattleCall([battle EXCEPT !.allEntities =
                          Append(@, createEntity("PLAYER", stats))],
                      "addPlayer", FALSE, 69)

AddEnemy ==
    \E stats \in StatChoices :
        /\ Len(battle.allEntities) < MaxEntities
        /\ BattleCall([battle EXCEPT !.allEntities =
                          Append(@, createEntity("ENEMY", stats))],
                      "addEnemy", FALSE, 77)

StartBattle ==
    \E b \in initializeBattle(battle) :
        BattleCall(b, "startBattle", FALSE, 84)

ExecutePlayerAction ==
    \E skillName \in SkillNames \cup {"none"},
       target \in 0..Len(battle.allEntities) :
        \E r \in executePlayerAction(battle, skillName, target) :
            BattleCall(r.b, "executePlayerAction", r.err, r.line)

Update ==
    \E r \in update(battle) :
        BattleCall(r.b, "update", r.err, r.line)

BattleNext ==
    AddPlayer \/ AddEnemy \/ StartBattle \/ ExecutePlayerAction \/ Update

\* The battle program constructs no graph.
BattleInit == Init /\ G = Graph_empty

BattleSpec == BattleInit /\ [][BattleNext]_vars

-----------------------------------------------------------------------------
(* What the claims speak of, defined on the graph's structure alone        *)
(* (roots and child lists), without flags or frontiers.                    *)

Nodes(g) == 1..Len(g.data)

\* The set of a sequence's elements.
Range(seq) == {seq[i] : i \in 1..Len(seq)}

\* The least set holding S and the children of its members.
RECURSIVE Closure(_, _)
Closure(g, S) ==
    LET T == S \cup UNION {Range(g.kids[n]) : n \in S}
    IN  IF T = S THEN S ELSE Closure(g, T)

\* The nodes reachable from the root.
Reachable(g) == IF g.root = NULL THEN {} ELSE Closure(g, {g.root})

\* Some reachable node carries payload t.
Present(g, t) == \E n \in Reachable(g) : g.data[n] = t

\* The elements of seq that are not in S, each once, in order of first occurrence.
RECURSIVE NewOf(_, _)
NewOf(seq, S) ==
    IF seq = <<>> THEN <<>>
    ELSE IF Head(seq) \in S THEN NewOf(Tail(seq), S)
         ELSE <<Head(seq)>> \o NewOf(Tail(seq), S \cup {Head(seq)})

\* Breadth-first order: the root, then, parent after parent in this same
\* order, the children not listed yet in child-list order.
RECURSIVE BreadthFrom(_, _, _)
BreadthFrom(g, order, k) ==
    IF k > Len(order) THEN order
    ELSE BreadthFrom(g, order \o NewOf(g.kids[order[k]], Range(order)), k + 1)

BreadthOrder(g) == IF g.root = NULL THEN <<>> ELSE BreadthFrom(g, <<g.root>>, 1)

\* The first node in breadth-first order carrying payload t, NULL if none.
FirstBreadth(g, t) ==
    LET order == BreadthOrder(g)
        k == FirstIndex([i \in 1..Len(order) |-> g.data[order[i]]], t)
    IN  IF k = 0 THEN NULL ELSE order[k]

\* The child-list entries of reachable parents that refer to a node
\* carrying payload t: <<parent, position>> pairs.
EntriesTo(g, t) ==
    {e \in UNION {{<<n, k>> : k \in 1..Len(g.kids[n])} : n \in Reachable(g)} :
        g.data[g.kids[e[1]][e[2]]] = t}

Last(seq) == seq[Len(seq)]

\* seq without its k-th element.
Without(seq, k) == SubSeq(seq, 1, k - 1) \o SubSeq(seq, k + 1, Len(seq))

-----------------------------------------------------------------------------
(* The same program with each public call run one while-loop iteration at  *)
(* a time: pc names the loop being executed, call the public operation and *)
(* its arguments, frame the locals of the loop.  The graph's flags and     *)
(* child lists change with every iteration, as in the code.  Calls take    *)
(* their arguments from StepPayloads; the constructors still draw from     *)
(* Payloads, so a graph can hold a payload that no call names.             *)

\* A call goes on: the loop p runs (or has run one more iteration) with locals st.
Running(p, c, st) ==
    /\ pc' = p
    /\ call' = c
    /\ frame' = st
    /\ m_children' = st.kids
    /\ has_been_visited' = st.vis
    /\ UNCHANGED <<m_pRoot, m_data, last, cout, tvars>>

\* A call ends with outcome r, having written lines.
Return(op, r, lines) ==
    /\ SetGraph(r.g)
    /\ cout' = lines
    /\ last' = Op(op, r.err, r.line)
    /\ pc' = "idle"
    /\ call' = NoCall
    /\ frame' = NoFrame
    /\ UNCHANGED tvars

Calling(op, args) == [op |-> op, args |-> args, found |-> <<>>]

\* The loop condition of the search loops (BFS line 332, DFS line 380): a
\* return from inside the loop leaves it as well.
SearchOver == frame.done \/ frame.fr.elems = <<>>

\* traverseBFS line 522 to 531.
CallTraverseBFS ==
    /\ pc = "idle"
    /\ IF m_pRoot = NULL
       THEN Return("traverseBFS", Returned(G, 524), <<>>)
       ELSE Running("traverseBFS", Calling("traverseBFS", <<>>), traverseBFS_init(G))

StepTraverseBFS ==
    /\ pc = "traverseBFS"
    /\ ~Queue_empty(frame.fr)
    /\ Running(pc, call, traverseBFS_body(m_data, frame))

ReturnTraverseBFS ==
    /\ pc = "traverseBFS"
    /\ Queue_empty(frame.fr)
    /\ LET st == traverseBFS_exit(m_pRoot, frame)
       IN  Return("traverseBFS", Returned([G EXCEPT !.vis = st.vis], 560), st.lines)

\* traverseDFS line 570 to 579.
CallTraverseDFS ==
    /\ pc = "idle"
    /\ IF m_pRoot = NULL
       THEN Return("traverseDFS", Returned(G, 572), <<>>)
       ELSE Running("traverseDFS", Calling("traverseDFS", <<>>), traverseDFS_init(G))

StepTraverseDFS ==
    /\ pc = "traverseDFS"
    /\ ~Stack_empty(frame.fr)
    /\ Running(pc, call, traverseDFS_body(m_data, frame))

ReturnTraverseDFS ==
    /\ pc = "traverseDFS"
    /\ Stack_empty(frame.fr)
    /\ LET st == traverseDFS_exit(m_pRoot, frame)
       IN  Return("traverseDFS", Returned([G EXCEPT !.vis = st.vis], 608), st.lines)

\* insert lines 623-628.  The guard keeps the graph within the model's bounds.
CallInsert ==
    /\ pc = "idle"
    /\ \E t_parent \in StepPayloads, t_newData \in StepPayloads :
          /\ Edges(m_children, Len(m_children)) < MaxEdges
          /\ (Len(m_data) < MaxNodes \/ Present(G, t_newData))
          /\ IF m_pRoot = NULL
             THEN Return("insert", Threw(G, 625), <<>>)
             ELSE Running("insert_BFS", Calling("insert", <<t_parent, t_newData>>),
                          BFS_init(G))

\* BFS(t_parent), one iteration.
InsertStepBFS ==
    /\ pc = "insert_BFS"
    /\ ~SearchOver
    /\ Running(pc, call, BFS_body(m_pRoot, m_data, call.args[1], frame))

\* insert lines 629-634.
InsertAfterBFS ==
    /\ pc = "insert_BFS"
    /\ SearchOver
    /\ LET b == BFS_exit(m_pRoot, frame)
           g1 == [G EXCEPT !.vis = b.vis]
       IN  IF b.ret = NULL
           THEN Return("insert", Threw(g1, 631), <<>>)
           ELSE Running("insert_DFS", [call EXCEPT !.found = <<b.ret>>], DFS_init(g1))

\* DFS(t_newData), one iteration.
InsertStepDFS ==
    /\ pc = "insert_DFS"
    /\ ~SearchOver
    /\ Running(pc, call, DFS_body(m_pRoot, m_data, call.args[2], frame))

\* insert lines 636-643.
InsertAfterDFS ==
    /\ pc = "insert_DFS"
    /\ SearchOver
    /\ LET d == DFS_exit(m_pRoot, frame)
           g1 == [G EXCEPT !.vis = d.vis]
       IN  Return("insert", insert_found(g1, call.found[1], call.args[2], d.ret), <<>>)

\* swap lines 655-660.
CallSwap ==
    /\ pc = "idle"
    /\ \E t_currentParent \in StepPayloads, t_newParent \in StepPayloads,
          t_data \in StepPayloads :
          IF m_pRoot = NULL
          THEN Return("swap", Threw(G, 657), <<>>)
          ELSE Running("swap_BFS1",
                       Calling("swap", <<t_currentParent, t_newParent, t_data>>),
                       BFS_init(G))

\* BFS(t_currentParent), one iteration.
SwapStepBFS1 ==
    /\ pc = "swap_BFS1"
    /\ ~SearchOver
    /\ Running(pc, call, BFS_body(m_pRoot, m_data, call.args[1], frame))

\* swap lines 661-665.
SwapAfterBFS1 ==
    /\ pc = "swap_BFS1"
    /\ SearchOver
    /\ LET b1 == BFS_exit(m_pRoot, frame)
           g1 == [G EXCEPT !.vis = b1.vis]
       IN  IF b1.ret = NULL
           THEN Return("swap", Threw(g1, 663), <<>>)
           ELSE Running("swap_BFS2", [call EXCEPT !.found = <<b1.ret>>], BFS_init(g1))

\* BFS(t_newParent), one iteration.
SwapStepBFS2 ==
    /\ pc = "swap_BFS2"
    /\ ~SearchOver
    /\ Running(pc, call, BFS_body(m_pRoot, m_data, call.args[2], frame))

\* swap lines 666-680.
SwapAfterBFS2 ==
    /\ pc = "swap_BFS2"
    /\ SearchOver
    /\ LET b2 == BFS_exit(m_pRoot, frame)
           g2 == [G EXCEPT !.vis = b2.vis]
       IN  IF b2.ret = NULL
           THEN Return("swap", Threw(g2, 668), <<>>)
           ELSE Return("swap", swap_for(g2, call.found[1], b2.ret, call.args[3], 0), <<>>)

\* deleteNode lines 692-697.
CallDeleteNode ==
    /\ pc = "idle"
    /\ \E t_data \in StepPayloads :
          IF m_pRoot = NULL
          THEN Return("deleteNode", Threw(G, 694), <<>>)
          ELSE Running("deleteNode_DFS", Calling("deleteNode", <<t_data>>), DFS_init(G))

\* DFS(t_data), one iteration.
DeleteStepDFS ==
    /\ pc = "deleteNode_DFS"
    /\ ~SearchOver
    /\ Running(pc, call, DFS_body(m_pRoot, m_data, call.args[1], frame))

\* deleteNode lines 698-704.
DeleteAfterDFS ==
    /\ pc = "deleteNode_DFS"
    /\ SearchOver
    /\ LET d == DFS_exit(m_pRoot, frame)
           g1 == [G EXCEPT !.vis = d.vis]
       IN  IF d.ret = NULL
           THEN Return("deleteNode", Threw(g1, 700), <<>>)
           ELSE Running("deleteNode_parentsDFS", call, parentsDFS_init(g1))

\* parentsDFS(t_data), one iteration.
DeleteStepParentsDFS ==
    /\ pc = "deleteNode_parentsDFS"
    /\ ~Stack_empty(frame.fr)
    /\ Running(pc, call, parentsDFS_body(m_pRoot, m_data, call.args[1], frame))

\* deleteNode lines 704-718.
DeleteAfterParentsDFS ==
    /\ pc = "deleteNode_parentsDFS"
    /\ Stack_empty(frame.fr)
    /\ LET p == parentsDFS_exit(m_pRoot, frame)
           g1 == [G EXCEPT !.vis = p.vis]
           s == deleteNode_safety(g1, call.args[1], p.ret)
       IN  IF s.line # 0
           THEN Return("deleteNode", s, <<>>)
           ELSE Running("deleteNode_walk", call, deleteNode_init(g1, p.ret))

\* deleteNode lines 720-740, one iteration.
DeleteStepWalk ==
    /\ pc = "deleteNode_walk"
    /\ ~Stack_empty(frame.fr)
    /\ Running(pc, call, deleteNode_body(m_data, call.args[1], frame))

\* deleteNode lines 742-743.
DeleteAfterWalk ==
    /\ pc = "deleteNode_walk"
    /\ Stack_empty(frame.fr)
    /\ LET w == deleteNode_exit(m_pRoot, frame)
       IN  Return("deleteNode", Returned([G EXCEPT !.kids = w.kids, !.vis = w.vis], 743),
                  <<>>)

StepNext ==
    \/ CallTraverseBFS \/ StepTraverseBFS \/ ReturnTraverseBFS
    \/ CallTraverseDFS \/ StepTraverseDFS \/ ReturnTraverseDFS
    \/ CallInsert \/ InsertStepBFS \/ InsertAfterBFS \/ InsertStepDFS \/ InsertAfterDFS
    \/ CallSwap \/ SwapStepBFS1 \/ SwapAfterBFS1 \/ SwapStepBFS2 \/ SwapAfterBFS2
    \/ CallDeleteNode \/ DeleteStepDFS \/ DeleteAfterDFS \/ DeleteStepParentsDFS
    \/ DeleteAfterParentsDFS \/ DeleteStepWalk \/ DeleteAfterWalk

\* A call that has begun executes its next statement: nothing suspends it.
Continue == pc # "idle" /\ StepNext

StepSpec == Init /\ [][StepNext]_vars /\ WF_vars(Continue)

-----------------------------------------------------------------------------
(* C1: after every public Graph operation returns, normally or by          *)
(* throwing, the visitation flag of every node, the root included, is      *)
(* false.                                                                  *)
C1_FlagsClear ==
    \A n \in 1..Len(has_been_visited) : has_been_visited[n] = FALSE

(* C2: every Graph operation (traverseBFS, traverseDFS, insert, swap,      *)
(* deleteNode and the BFS, DFS and parent-count scans inside them)         *)
(* terminates on every graph the public operations can build, including    *)
(* graphs with self-loops, cycles that lead back to the root and nodes     *)
(* shared by several parents: a call that has begun returns.               *)
C2_Terminates == []<>(pc = "idle")

\* C2 witness: traverseDFS has returned, having printed two lines, on a
\* graph in which a node other than the root has a self-loop, is a child of
\* the root (so it has two parents) and has the root among its children.
C2_Witness ==
    /\ pc = "idle"
    /\ last = Op("traverseDFS", FALSE, 608)
    /\ Len(cout) = 2
    /\ \E n \in Reachable(G) \ {m_pRoot} :
          /\ n \in Range(m_children[n])
          /\ n \in Range(m_children[m_pRoot])
          /\ m_pRoot \in Range(m_children[n])

(* C3: for any graph and any target payload, BFS search and DFS search     *)
(* each return a node if and only if some node reachable from the root     *)
(* has that payload; the node returned is reachable and carries the        *)
(* target; both return not-found on an empty graph.                        *)
C3_SearchFinds ==
    \A t \in Payloads :
        LET b == BFS(G, t).ret
            d == DFS(G, t).ret
        IN  /\ (b # NULL) <=> Present(G, t)
            /\ (d # NULL) <=> Present(G, t)
            /\ b # NULL => (b \in Reachable(G) /\ m_data[b] = t)
            /\ d # NULL => (d \in Reachable(G) /\ m_data[d] = t)
            /\ m_pRoot = NULL => (b = NULL /\ d = NULL)

\* C3 witness: a graph with a cycle back through the root in which a
\* payload is found below the root by both searches and another payload is
\* found by neither; the searches run on flags an earlier call left behind.
C3_Witness ==
    /\ m_pRoot # NULL
    /\ has_been_visited[m_pRoot]
    /\ \E n \in Reachable(G) \ {m_pRoot} : m_pRoot \in Range(m_children[n])
    /\ \E t \in Payloads : /\ BFS(G, t).ret \notin {NULL, m_pRoot}
                           /\ DFS(G, t).ret \notin {NULL, m_pRoot}
    /\ \E t \in Payloads : BFS(G, t).ret = NULL /\ DFS(G, t).ret = NULL

(* C4: insert(parent, x) with parent present appends exactly one entry at  *)
(* the end of the child list of the first node in BFS order whose payload  *)
(* is parent and changes no other child list; the entry refers to the      *)
(* already reachable node with payload x when one exists (no node is       *)
(* created), and otherwise to one newly created childless node with        *)
(* payload x.                                                              *)
C4_InsertAppends ==
    \A p \in Payloads, x \in Payloads :
        Present(G, p) =>
            LET r == insert(G, p, x)
                par == FirstBreadth(G, p)
                old == m_children[par]
                new == r.g.kids[par]
                e == Last(new)
            IN  /\ ~r.err
                /\ Len(new) = Len(old) + 1
                /\ new = Append(old, e)
                /\ \A n \in Nodes(G) \ {par} : r.g.kids[n] = m_children[n]
                /\ IF Present(G, x)
                   THEN /\ e \in Reachable(G)
                        /\ m_data[e] = x
                        /\ r.g.data = m_data
                        /\ Len(r.g.kids) = Len(m_children)
                   ELSE /\ e = Len(m_data) + 1
                        /\ r.g.data = Append(m_data, x)
                        /\ Len(r.g.kids) = Len(m_children) + 1
                        /\ r.g.kids[e] = <<>>

\* C4 witness: an insert has linked an existing node under a second parent
\* that is not the root.
C4_Witness ==
    /\ last = Op("insert", FALSE, 638)
    /\ \E a \in Reachable(G), b \in Reachable(G) \ {m_pRoot} :
          /\ a # b
          /\ m_children[b] # <<>>
          /\ Last(m_children[b]) \in Range(m_children[a])
          /\ Last(m_children[b]) \notin {a, b}

(* C5: for any graph, insert(P1, X) and then insert(P2, X) for two         *)
(* different existing parents P1 and P2 yield a graph in which both        *)
(* parents' child lists refer to the same node object for X and in which   *)
(* deleteNode(X) is a no-op: it raises no error and removes no edge.       *)
TwoInserts(P1, P2, X) ==
    LET r1 == insert(G, P1, X)
        r2 == insert(r1.g, P2, X)
        r3 == deleteNode(r2.g, X)
        par1 == FirstBreadth(G, P1)
        par2 == FirstBreadth(r1.g, P2)
        n1 == Last(r1.g.kids[par1])
        n2 == Last(r2.g.kids[par2])
    IN  /\ ~r1.err /\ ~r2.err
        /\ n1 = n2
        /\ r2.g.data[n1] = X
        /\ n1 \in Range(r2.g.kids[par1])
        /\ ~r3.err
        /\ r3.g.kids = r2.g.kids

\* C5 as stated: X is any payload.
C5_Original ==
    \A P1 \in Payloads, P2 \in Payloads, X \in Payloads :
        (P1 # P2 /\ Present(G, P1) /\ Present(G, P2)) => TwoInserts(P1, P2, X)

\* C5 amended: ... for any X other than the root's payload ...
C5_SharedChild ==
    \A P1 \in Payloads, P2 \in Payloads, X \in Payloads :
        (P1 # P2 /\ Present(G, P1) /\ Present(G, P2) /\ X # m_data[m_pRoot])
            => TwoInserts(P1, P2, X)

\* C5 witness: deleteNode has returned at the shared-node check on a graph
\* in which two parents with different payloads each end with the same
\* node, which does not carry the root's payload.
C5_Witness ==
    /\ last = Op("deleteNode", FALSE, 710)
    /\ \E a \in Reachable(G), b \in Reachable(G) :
          /\ m_data[a] # m_data[b]
          /\ m_children[a] # <<>> /\ m_children[b] # <<>>
          /\ Last(m_children[a]) = Last(m_children[b])
          /\ m_data[Last(m_children[a])] # m_data[m_pRoot]

(* C6: deleteNode(d) where d is not the root's payload and exactly one     *)
(* child-list entry in the reachable graph refers to a node with payload d *)
(* removes exactly that one entry (the order of the parent's remaining     *)
(* entries is kept), leaves every other child list unchanged, and          *)
(* afterwards a search for d reports not-found.                            *)
C6_DeleteSingle ==
    \A d \in Payloads :
        (/\ m_pRoot # NULL
         /\ d # m_data[m_pRoot]
         /\ Cardinality(EntriesTo(G, d)) = 1) =>
            LET r == deleteNode(G, d)
                e == CHOOSE e \in EntriesTo(G, d) : TRUE
            IN  /\ ~r.err
                /\ r.g.kids[e[1]] = Without(m_children[e[1]], e[2])
                /\ \A n \in Nodes(G) \ {e[1]} : r.g.kids[n] = m_children[n]
                /\ ~Present(r.g, d)
                /\ BFS(r.g, d).ret = NULL
                /\ DFS(r.g, d).ret = NULL

\* C6 witness: deleteNode has run its walk to the end and a node that has
\* children of its own is no longer reachable.
C6_Witness ==
    /\ last = Op("deleteNode", FALSE, 743)
    /\ \E n \in Nodes(G) \ Reachable(G) : m_children[n] # <<>>

C8_DeleteRoot ==
    m_pRoot # NULL =>
        LET r == deleteNode(G, m_data[m_pRoot])
        IN  r.err /\ r.g.kids = m_children

\* C8 witness: deleteNode has thrown at the root check on a graph whose
\* root is a child of another node and shares its payload with a second
\* node.
C8_Witness ==
    /\ last = Op("deleteNode", TRUE, 706)
    /\ \E n \in Reachable(G) \ {m_pRoot} : m_pRoot \in Range(m_children[n])
    /\ \E n \in Reachable(G) \ {m_pRoot} : m_data[n] = m_data[m_pRoot]

(* C9: swap(a, b, x) with both parents present and at least one child of   *)
(* payload x under a removes exactly one entry from a's child list, the    *)
(* first in list order whose payload is x, and appends that same node      *)
(* reference at the end of b's child list; every other entry, including a  *)
(* second child of a with payload x, stays where it was.  (When a and b    *)
(* are the same node, its list loses the entry and gains it at the end.)   *)
C9_SwapMovesFirst ==
    \A a \in Payloads, b \in Payloads, x \in Payloads :
        (/\ Present(G, a) /\ Present(G, b)
         /\ \E c \in Range(m_children[FirstBreadth(G, a)]) : m_data[c] = x) =>
            LET r == swap(G, a, b, x)
                pa == FirstBreadth(G, a)
                pb == FirstBreadth(G, b)
                k == FirstIndex([i \in 1..Len(m_children[pa]) |->
                                    m_data[m_children[pa][i]]], x)
                n == m_children[pa][k]
            IN  /\ ~r.err
                /\ IF pa = pb
                   THEN r.g.kids[pa] = Append(Without(m_children[pa], k), n)
                   ELSE /\ r.g.kids[pa] = Without(m_children[pa], k)
                        /\ r.g.kids[pb] = Append(m_children[pb], n)
                /\ \A m \in Nodes(G) \ {pa, pb} : r.g.kids[m] = m_children[m]

\* C9 witness: a swap has moved the first of two equal-payload children of
\* the root under another node and the second is still under the root.
C9_Witness ==
    /\ last = Op("swap", FALSE, 677)
    /\ \E n1 \in Nodes(G), n2 \in Nodes(G), pb \in Nodes(G) \ {m_pRoot} :
          /\ n1 < n2
          /\ m_data[n1] = m_data[n2]
          /\ n2 \in Range(m_children[m_pRoot])
          /\ n1 \notin Range(m_children[m_pRoot])
          /\ m_children[pb] # <<>>
          /\ Last(m_children[pb]) = n1

(* C10: traverseBFS and traverseDFS each emit exactly one line per node    *)
(* reachable from the root (no node twice and none omitted, also with      *)
(* cycles and shared children), and each line lists the payloads of all    *)
(* entries of that node's child list in child-list order, including        *)
(* children that were already visited.                                     *)
RECURSIVE Joined(_)
Joined(payloads) ==
    IF payloads = <<>> THEN ""
    ELSE IF Len(payloads) = 1 THEN ToString(Head(payloads))
         ELSE ToString(Head(payloads)) \o ", " \o Joined(Tail(payloads))

\* The line of node n: payload(child payloads).
LineOf(g, n) ==
    ToString(g.data[n]) \o "("
        \o Joined([i \in 1..Len(g.kids[n]) |-> g.data[g.kids[n][i]]]) \o ")"

\* r, the outcome of a printing traversal, has one line per reachable node.
OneLinePerNode(g, r) ==
    /\ Len(r.popped) = Cardinality(Reachable(g))
    /\ Range(r.popped) = Reachable(g)
    /\ Len(r.lines) = Len(r.popped)
    /\ \A i \in 1..Len(r.popped) : r.lines[i] = LineOf(g, r.popped[i])

C10_TraversalLines ==
    /\ OneLinePerNode(G, traverseBFS(G))
    /\ OneLinePerNode(G, traverseDFS(G))
    /\ last.op = "traverseBFS" => cout = traverseBFS(G).lines
    /\ last.op = "traverseDFS" => cout = traverseDFS(G).lines

\* C10 witness: traverseDFS has printed the nodes of a graph with a cycle
\* through the root and a node with two parents.
C10_Witness ==
    /\ last.op = "traverseDFS"
    /\ Len(cout) >= 2
    /\ \E n \in Reachable(G) \ {m_pRoot} : m_pRoot \in Range(m_children[n])
    /\ \E a \in Reachable(G), b \in Reachable(G) :
          a # b /\ Range(m_children[a]) \cap Range(m_children[b]) # {}

-----------------------------------------------------------------------------
(* Visiting order.  A child is first reached from the parent whose scan    *)
(* put it on the frontier: the first node taken off the frontier that has  *)
(* it in its child list.  The root is on the frontier from the start and   *)
(* is first reached from no parent.                                        *)

\* The first node of order that has c among its children, NULL if none.
FirstParent(g, order, c) ==
    LET k == FirstIndex([i \in 1..Len(order) |-> c \in Range(g.kids[order[i]])], TRUE)
    IN  IF k = 0 THEN NULL ELSE order[k]

\* <<p, i, j>>: positions i < j of p's child list hold two different nodes,
\* each for the first time in that list, both first reached from p.
SiblingPairs(g, order) ==
    {t \in UNION {{<<p, i, j>> : i \in 1..Len(g.kids[p]), j \in 1..Len(g.kids[p])} :
                     p \in Reachable(g)} :
        /\ t[2] < t[3]
        /\ g.kids[t[1]][t[2]] # g.kids[t[1]][t[3]]
        /\ FirstIndex(g.kids[t[1]], g.kids[t[1]][t[2]]) = t[2]
        /\ FirstIndex(g.kids[t[1]], g.kids[t[1]][t[3]]) = t[3]
        /\ g.root \notin {g.kids[t[1]][t[2]], g.kids[t[1]][t[3]]}
        /\ FirstParent(g, order, g.kids[t[1]][t[2]]) = t[1]
        /\ FirstParent(g, order, g.kids[t[1]][t[3]]) = t[1]}

\* No node taken off the frontier before c carries c's payload.
FirstWithPayload(g, order, c) ==
    \A k \in 1..(FirstIndex(order, c) - 1) : g.data[order[k]] # g.data[c]

\* In order, first comes before second; a search with ret as its result for
\* their common payload prefers first.
VisitedBefore(g, order, first, second, ret) ==
    /\ FirstIndex(order, first) # 0
    /\ FirstIndex(order, first) < FirstIndex(order, second)
    /\ g.data[first] = g.data[second] =>
          /\ ret # second
          /\ FirstWithPayload(g, order, first) => ret = first

C13_Original ==
    LET order == traverseDFS(G).popped IN
    \A t \in SiblingPairs(G, order) :
        LET ci == m_children[t[1]][t[2]]
            cj == m_children[t[1]][t[3]]
        IN  VisitedBefore(G, order, ci, cj, DFS(G, m_data[ci]).ret)

\* C13 amended: ... the later-inserted one is popped before the earlier one,
\* and when both carry the same payload the search for it does not return
\* the earlier one (it returns the later one unless a node popped before it
\* carries the payload too).
C13_DepthReverseOrder ==
    LET order == traverseDFS(G).popped IN
    \A t \in SiblingPairs(G, order) :
        LET ci == m_children[t[1]][t[2]]
            cj == m_children[t[1]][t[3]]
        IN  VisitedBefore(G, order, cj, ci, DFS(G, m_data[ci]).ret)

\* C13 witness: traverseDFS has printed a graph whose root has two
\* different children with the same payload, a payload the root does not
\* carry, and the second of them has a child of its own.
C13_Witness ==
    /\ last.op = "traverseDFS"
    /\ Len(cout) = 3
    /\ Len(m_children[m_pRoot]) = 2
    /\ m_children[m_pRoot][1] # m_children[m_pRoot][2]
    /\ m_data[m_children[m_pRoot][1]] = m_data[m_children[m_pRoot][2]]
    /\ m_data[m_children[m_pRoot][1]] # m_data[m_pRoot]
    /\ m_children[m_children[m_pRoot][2]] # <<>>

(* C14: insert(parent, x) on a non-empty graph in which no reachable node  *)
(* has payload parent fails with an error, creates no node and leaves      *)
(* every child list unchanged.                                             *)
C14_InsertNoParent ==
    \A p \in Payloads, x \in Payloads :
        (m_pRoot # NULL /\ ~Present(G, p)) =>
            LET r == insert(G, p, x)
            IN  /\ r.err
                /\ r.g.data = m_data
                /\ r.g.kids = m_children
                /\ r.g.root = m_pRoot

\* C14 witness: insert has thrown for a missing parent on a graph whose
\* root has children, while a node no longer reachable carries a payload
\* that no reachable node carries.
C14_Witness ==
    /\ last = Op("insert", TRUE, 631)
    /\ m_children[m_pRoot] # <<>>
    /\ \E n \in Nodes(G) \ Reachable(G) : ~Present(G, m_data[n])

(* C15: swap(a, b, x) fails with an error and leaves every child list      *)
(* unchanged whenever no reachable node has payload a or no reachable node *)
(* has payload b.                                                          *)
C15_SwapNoParent ==
    \A a \in Payloads, b \in Payloads, x \in Payloads :
        (~Present(G, a) \/ ~Present(G, b)) =>
            LET r == swap(G, a, b, x)
            IN  /\ r.err
                /\ r.g.kids = m_children
                /\ r.g.data = m_data

\* C15 witness: swap has thrown for a missing new parent on a graph whose
\* root has two children.
C15_Witness ==
    /\ last = Op("swap", TRUE, 668)
    /\ Len(m_children[m_pRoot]) >= 2

(* C16: swap(a, b, x) where both parents exist but a has no child with     *)
(* payload x raises no error and leaves every child list unchanged.        *)
C16_SwapNoChild ==
    \A a \in Payloads, b \in Payloads, x \in Payloads :
        (/\ Present(G, a) /\ Present(G, b)
         /\ \A c \in Range(m_children[FirstBreadth(G, a)]) : m_data[c] # x) =>
            LET r == swap(G, a, b, x)
            IN  /\ ~r.err
                /\ r.g.kids = m_children
                /\ r.g.data = m_data

\* C16 witness: swap has run its loop to the end without a move on a graph
\* in which a node other than the root has children.
C16_Witness ==
    /\ last = Op("swap", FALSE, 680)
    /\ \E n \in Reachable(G) \ {m_pRoot} : m_children[n] # <<>>

(* C17: deleteNode(d) on a non-empty graph in which no reachable node has  *)
(* payload d fails with an error and leaves every child list unchanged.    *)
C17_DeleteMissing ==
    \A d \in Payloads :
        (m_pRoot # NULL /\ ~Present(G, d)) =>
            LET r == deleteNode(G, d)
            IN  /\ r.err
                /\ r.g.kids = m_children
                /\ r.g.data = m_data

\* C17 witness: deleteNode has thrown for a missing payload on a graph
\* whose root has children, where a node that is no longer reachable
\* carries a payload no reachable node carries.
C17_Witness ==
    /\ last = Op("deleteNode", TRUE, 700)
    /\ m_children[m_pRoot] # <<>>
    /\ \E n \in Nodes(G) \ Reachable(G) : ~Present(G, m_data[n])

(* C18: on an empty graph traverseBFS and traverseDFS produce no output,   *)
(* insert, swap and deleteNode each fail with an error, and the graph is   *)
(* still empty after any sequence of these calls.                          *)
C18_EmptyGraph ==
    m_pRoot = NULL =>
        /\ G = Graph_empty
        /\ last.op \in {"traverseBFS", "traverseDFS"} => cout = <<>>
        /\ last.op \in {"insert", "swap", "deleteNode"} => last.err
        /\ traverseBFS(G).lines = <<>> /\ traverseBFS(G).vis = <<>>
        /\ traverseDFS(G).lines = <<>> /\ traverseDFS(G).vis = <<>>
        /\ \A p \in Payloads, x \in Payloads :
              insert(G, p, x) = Threw(Graph_empty, 625)
        /\ \A a \in Payloads, b \in Payloads, x \in Payloads :
              swap(G, a, b, x) = Threw(Graph_empty, 657)
        /\ \A d \in Payloads : deleteNode(G, d) = Threw(Graph_empty, 694)

\* C18 witness: the graph is empty after a call on the empty graph threw.
C18_Witness ==
    /\ m_pRoot = NULL
    /\ last = Op("swap", TRUE, 657)

(* C19: for any non-empty graph, BFS search and DFS search for the root's  *)
(* payload return the root node after a single frontier insertion and a    *)
(* single frontier removal, without pushing or marking any child of the    *)
(* root.                                                                   *)
C19_RootFoundFirst ==
    m_pRoot # NULL =>
        LET b == BFS(G, m_data[m_pRoot])
            d == DFS(G, m_data[m_pRoot])
        IN  /\ b.ret = m_pRoot /\ d.ret = m_pRoot
            /\ b.fr = Queue_new /\ d.fr = Stack_new
            /\ b.vn = <<>> /\ d.vn = <<m_pRoot>>
            /\ \A n \in Nodes(G) \ {m_pRoot} :
                  /\ b.vis[n] = has_been_visited[n]
                  /\ d.vis[n] = has_been_visited[n]
                  /\ ~b.vis[n] /\ ~d.vis[n]

\* C19 witness: insert under the root's payload (a BFS for it) has added a
\* third child to a root one of whose children has a child of its own.
C19_Witness ==
    /\ last = Op("insert", FALSE, 638)
    /\ Len(m_children[m_pRoot]) >= 2
    /\ \E c \in Range(m_children[m_pRoot]) : c # m_pRoot /\ m_children[c] # <<>>

-----------------------------------------------------------------------------
(* C20: DoubleLinkedList::reverse turns a list holding e0..e(n-1) into a   *)
(* list holding e(n-1)..e0, as size() and at(i) show it: after reverse()   *)
(* on a list whose counter equals the number of its elements, size() is    *)
(* the same n and at(i) returns the element that was at n-1-i, for every   *)
(* i below n; an empty list and a list of one element stay as they were.   *)
C20_ReverseObserved ==
    dll.m_size = Len(dll.elems) =>
        LET n == Len(dll.elems)
            r == List_reverse(dll)
        IN  /\ List_size(r) = n
            /\ \A i \in 0..(n - 1) : List_at(r, i) = {Value(dll.elems[n - i])}
            /\ n <= 1 => r = dll

\* What reverse does do: the chain is reversed, an empty list and a list of
\* one element stay as they were, and the counter of a longer list is 0.
C20_ReverseChain ==
    dll.m_size = Len(dll.elems) =>
        LET n == Len(dll.elems)
            r == List_reverse(dll)
        IN  /\ Len(r.elems) = n
            /\ \A i \in 1..n : r.elems[i] = dll.elems[n + 1 - i]
            /\ n <= 1 => r = dll
            /\ n >= 2 => /\ List_size(r) = 0
                         /\ \A i \in 0..(n - 1) : List_at(r, i) = {OutOfRange}

-----------------------------------------------------------------------------
(* C11: starting from a graph with the single root 1, the calls            *)
(* insert(1,5), insert(1,3), insert(5,2), insert(1,2), deleteNode(2) leave *)
(* the one node 2 in the child lists of both 1 and 5 (deleteNode returns   *)
(* without an error and without removing anything), and traverseBFS        *)
(* called next emits exactly the lines 1(5, 3, 2), 5(2), 3(), 2() in that  *)
(* order.                                                                  *)
C11_Inserts ==
    <<Called("insert", <<1, 5>>), Called("insert", <<1, 3>>),
      Called("insert", <<5, 2>>), Called("insert", <<1, 2>>)>>

C11_Calls == Append(C11_Inserts, Called("deleteNode", <<2>>))

C11_Graph ==
    /\ m_pRoot = 1
    /\ m_data = <<1, 5, 3, 2>>
    /\ m_children = <<<<2, 3, 4>>, <<4>>, <<>>, <<>>>>

C11_Scenario ==
    /\ history = C11_Inserts => C11_Graph
    /\ history = C11_Calls =>
           /\ C11_Graph
           /\ last = Op("deleteNode", FALSE, 710)
    /\ history = Append(C11_Calls, Called("traverseBFS", <<>>)) =>
           /\ C11_Graph
           /\ cout = <<"1(5, 3, 2)", "5(2)", "3()", "2()">>

C11_Witness ==
    /\ history = Append(C11_Calls, Called("traverseBFS", <<>>))
    /\ Len(cout) = 4

-----------------------------------------------------------------------------
(* What a history of answered calls leaves in a container, oldest first:   *)
(* a call of the operation put adds its argument, a call of the operation  *)
(* take that did not fail removes one element, the oldest when fifo holds  *)
(* and the newest otherwise.                                               *)
RECURSIVE Pending(_, _, _, _)
Pending(h, put, take, fifo) ==
    IF h = <<>> THEN <<>>
    ELSE LET before == Pending(SubSeq(h, 1, Len(h) - 1), put, take, fifo)
             c == h[Len(h)]
         IN  IF c.op = put THEN Append(before, c.args[1])
             ELSE IF c.op = take /\ ~c.err
                  THEN IF fifo THEN Tail(before)
                       ELSE SubSeq(before, 1, Len(before) - 1)
             ELSE before

\* The number of calls of operation op in h, failed ones counted or not.
RECURSIVE Calls(_, _, _)
Calls(h, op, failed) ==
    IF h = <<>> THEN 0
    ELSE Calls(Tail(h), op, failed)
             + (IF Head(h).op = op /\ (failed \/ ~Head(h).err) THEN 1 ELSE 0)

\* The last call of h answered as a container holding before must: a take
\* or a peek gives the element next, a take or a peek of nothing fails.
AnsweredFrom(h, before, next, take) ==
    LET c == h[Len(h)] IN
    c.op \in {take, "peek"} =>
        IF before = <<>> THEN c.err ELSE ~c.err /\ c.value = next

(* C21: for any sequence of Queue operations, dequeue returns and removes  *)
(* the oldest enqueued element not yet removed, peek returns that element  *)
(* without removing it, size() equals the number of enqueues minus the     *)
(* number of successful dequeues, and dequeue or peek on an empty queue    *)
(* fails with an error and leaves the queue empty.                         *)
C21_QueueFIFO ==
    LET pend == Pending(history, "enqueue", "dequeue", TRUE) IN
    /\ Box_size(queue) = Calls(history, "enqueue", TRUE)
                             - Calls(history, "dequeue", FALSE)
    /\ Box_size(queue) = Len(pend)
    /\ Queue_empty(queue) <=> pend = <<>>
    /\ history # <<>> =>
           LET before == Pending(SubSeq(history, 1, Len(history) - 1),
                                 "enqueue", "dequeue", TRUE)
           IN  AnsweredFrom(history, before,
                            IF before = <<>> THEN 0 ELSE Head(before), "dequeue")

C21_Witness ==
    /\ Len(history) = MaxOps
    /\ history[1].op = "dequeue" /\ history[1].err
    /\ history[2].args = <<1>>
    /\ history[3].args = <<2>>
    /\ history[4].op = "peek" /\ history[4].value = 1
    /\ history[5].op = "dequeue" /\ history[5].value = 1
    /\ Box_size(queue) = 1

(* C22: for any sequence of Stack operations, destack returns and removes  *)
(* the most recently pushed element not yet removed, peek returns that     *)
(* element without removing it, size() equals the number of pushes minus   *)
(* the number of successful pops, and destack or peek on an empty stack    *)
(* fails with an error and leaves the stack empty.                         *)
C22_StackLIFO ==
    LET pend == Pending(history, "enstack", "destack", FALSE) IN
    /\ Box_size(stack) = Calls(history, "enstack", TRUE)
                             - Calls(history, "destack", FALSE)
    /\ Box_size(stack) = Len(pend)
    /\ Stack_empty(stack) <=> pend = <<>>
    /\ history # <<>> =>
           LET before == Pending(SubSeq(history, 1, Len(history) - 1),
                                 "enstack", "destack", FALSE)
           IN  AnsweredFrom(history, before,
                            IF before = <<>> THEN 0 ELSE before[Len(before)],
                            "destack")

C22_Witness ==
    /\ Len(history) = MaxOps
    /\ history[1].op = "destack" /\ history[1].err
    /\ history[2].args = <<1>>
    /\ history[3].args = <<2>>
    /\ history[4].op = "peek" /\ history[4].value = 2
    /\ history[5].op = "destack" /\ history[5].value = 2
    /\ Box_size(stack) = 1

-----------------------------------------------------------------------------
(* C23: after any sequence of DoubleLinkedList operations, at(i) and       *)
(* operator[](i) return the i-th element in list order (0-based) for every *)
(* i smaller than the number of elements the list holds, and fail with an  *)
(* out-of-range error exactly when i is greater than or equal to that      *)
(* number.                                                                 *)
C23_IndexedAccess ==
    dll # Crashed =>
        \A i \in 0..MaxListLen :
            LET expected == IF i < Len(dll.elems)
                            THEN {Value(dll.elems[i + 1])}
                            ELSE {OutOfRange}
            IN  /\ List_at(dll, i) = expected
                /\ List_index(dll, i) = expected

\* The same holds of every list whose counter equals the number of its
\* elements: indexed access goes wrong only once reverse has run.
C23_IndexedAccessCounted ==
    (dll # Crashed /\ dll.m_size = Len(dll.elems)) =>
        \A i \in 0..MaxListLen :
            LET expected == IF i < Len(dll.elems)
                            THEN {Value(dll.elems[i + 1])}
                            ELSE {OutOfRange}
            IN  /\ List_at(dll, i) = expected
                /\ List_index(dll, i) = expected

-----------------------------------------------------------------------------
(* The states in which a call made in state b ends a turn: the state at    *)
(* the call of setState(ACTION_EXECUTE), for every executePlayerAction and *)
(* every update that gets that far.                                        *)
BattleCalls(b) ==
    update(b) \cup
        UNION {executePlayerAction(b, sk, t) :
                   sk \in SkillNames \cup {"none"}, t \in 0..Len(b.allEntities)}

TurnsEnded(b) == {r.acted[1] : r \in {x \in BattleCalls(b) : x.acted # <<>>}}

\* The states in which a call made in state b starts a next turn: a turn
\* has ended and checkBattleConditions has left the battle active.
TurnsStarting(b) ==
    UNION {{c \in checkBattleConditions([a EXCEPT !.currentState = "TURN_END"]) :
                isBattleActive(c)} : a \in TurnsEnded(b)}

\* The entries startNextTurn chooses from in state c.
Queued(c) ==
    IF c.turnQueue = {} THEN calculateTurnOrder(c).turnQueue ELSE c.turnQueue

\* In state n, reached by startNextTurn from c, the current actor is a
\* queued entity that no queued entity precedes: no player is queued when
\* it is an enemy, and nobody of its team is queued with a higher speed;
\* its entry has left the queue.
ChosenFirst(c, n) ==
    LET q == Queued(c)
        team(o) == c.allEntities[o.entity].team
        speed(o) == c.allEntities[o.entity].stats.speed
    IN  q # {} =>
            \E o \in q :
                /\ n.currentActor = o.entity
                /\ n.turnQueue = q \ {o}
                /\ \A p \in q :
                       /\ team(o) = "PLAYER" \/ team(p) = "ENEMY"
                       /\ team(o) = team(p) => speed(o) >= speed(p)

(* C24: whenever a turn starts, the entity chosen as current actor is,     *)
(* among the entries still in the turn queue (the recomputed queue when it *)
(* was empty), one of the highest team priority, player above enemy, and   *)
(* within that priority of the highest speed; so an enemy is chosen only   *)
(* when no player is queued, whatever the speeds.  This holds for the      *)
(* first turn of startBattle and for every turn a call starts after it     *)
(* ended one.                                                              *)
C24_TurnOrder ==
    /\ \A c \in TurnsStarting(battle) :
           \A n \in startNextTurn(c) : ChosenFirst(c, n)
    /\ LET c == calculateTurnOrder(
                    [battle EXCEPT !.nBattle = Len(battle.allEntities)])
       IN  \A n \in initializeBattle(battle) : ChosenFirst(c, n)

\* A player has the turn while a faster enemy waits in the queue.
C24_Witness ==
    /\ last.op \in {"update", "executePlayerAction"}
    /\ battle.currentState = "PLAYER_CHOICE"
    /\ \E o \in battle.turnQueue :
           /\ battle.allEntities[o.entity].team = "ENEMY"
           /\ o.speed > battle.allEntities[battle.currentActor].stats.speed

-----------------------------------------------------------------------------
\* Some entity of the team that takes part in the battle has health above 0.
Standing(b, team) ==
    \E e \in 1..b.nBattle :
        b.allEntities[e].team = team /\ b.allEntities[e].stats.health > 0

\* The state checkBattleConditions leaves is the one the healths call for.
Verdict(a, c) ==
    IF ~Standing(a, "PLAYER") THEN c.currentState = "DEFEAT"
    ELSE IF ~Standing(a, "ENEMY") THEN c.currentState = "VICTORY"
    ELSE isBattleActive(c)

(* C25: at the end of every turn, before any next turn starts, the battle  *)
(* state becomes DEFEAT if no player has health above 0, otherwise VICTORY *)
(* if no enemy has health above 0, and the battle continues only if both   *)
(* teams still have a member with health above 0, whichever skill (attack, *)
(* heal, fireball) was used in the turn.                                   *)
C25_TurnEndVerdict ==
    \A a \in TurnsEnded(battle) :
        \A c \in checkBattleConditions([a EXCEPT !.currentState = "TURN_END"]) :
            Verdict(a, c)

\* The same holds of every turn that ends with isAlive true exactly of the
\* entities with health above 0, as attack and heal leave them.
C25_TurnEndVerdictFlagged ==
    \A a \in TurnsEnded(battle) :
        (\A e \in 1..a.nBattle :
             a.allEntities[e].isAlive <=> a.allEntities[e].stats.health > 0) =>
            \A c \in checkBattleConditions([a EXCEPT !.currentState = "TURN_END"]) :
                Verdict(a, c)

-----------------------------------------------------------------------------
\* The call executePlayerAction(sk, ...) in state b breaks the turn rules
\* or the resource constraints.
Forbidden(b, sk) ==
    \/ b.currentState # "PLAYER_CHOICE"
    \/ /\ sk \in SkillNames
       /\ b.currentActor # 0
       /\ b.allEntities[b.currentActor].stats.mana < getCost(sk)

(* C26: executePlayerAction reports an error (std::runtime_error) to its   *)
(* caller whenever the action violates the turn rules (the battle state is *)
(* not PLAYER_CHOICE) or the resource constraints (the current actor's     *)
(* mana is below the skill's cost).                                        *)
C26_ActionErrors ==
    \A sk \in SkillNames \cup {"none"}, t \in 0..Len(battle.allEntities) :
        Forbidden(battle, sk) =>
            \A r \in executePlayerAction(battle, sk, t) : r.err

\* What the call does in those cases: it returns without an error and
\* leaves the battle as it was.
C26_ActionRefused ==
    \A sk \in SkillNames \cup {"none"}, t \in 0..Len(battle.allEntities) :
        Forbidden(battle, sk) =>
            \A r \in executePlayerAction(battle, sk, t) :
                ~r.err /\ r.b = battle /\ r.acted = <<>>

-----------------------------------------------------------------------------
\* The number of child-list entries of reachable parents that refer to
\* node n.
Incoming(g, n) ==
    Cardinality({e \in UNION {{<<m, k>> : k \in 1..Len(g.kids[m])} :
                                  m \in Reachable(g)} :
                     g.kids[e[1]][e[2]] = n})

(* C27: insert and swap never shrink the set of nodes reachable from the   *)
(* root: every node reachable before the call is reachable after it; and   *)
(* when deleteNode(d) makes a reachable node unreachable, some reachable    *)
(* node carrying d had exactly one incoming child-list entry.              *)
C27_ReachableKept ==
    /\ \A parent \in Payloads, x \in Payloads :
           Reachable(G) \subseteq Reachable(insert(G, parent, x).g)
    /\ \A a \in Payloads, b \in Payloads, x \in Payloads :
           Reachable(G) \subseteq Reachable(swap(G, a, b, x).g)
    /\ \A d \in Payloads :
           ~(Reachable(G) \subseteq Reachable(deleteNode(G, d).g)) =>
               \E n \in Reachable(G) : G.data[n] = d /\ Incoming(G, n) = 1

\* The same without swap: insert never shrinks the reachable set, and
\* deleteNode does so only for a node with one incoming entry.
C27_ReachableKeptNoSwap ==
    /\ \A parent \in Payloads, x \in Payloads :
           Reachable(G) \subseteq Reachable(insert(G, parent, x).g)
    /\ \A d \in Payloads :
           ~(Reachable(G) \subseteq Reachable(deleteNode(G, d).g)) =>
               \E n \in Reachable(G) : G.data[n] = d /\ Incoming(G, n) = 1

-----------------------------------------------------------------------------
\* In the visiting order, whenever the node just visited has a child that
\* has not been visited yet, the next node visited is one of its children.
DeepensFirst(g, order) ==
    \A k \in 1..(Len(order) - 1) :
        (\E c \in Range(g.kids[order[k]]) :
             c \notin {order[i] : i \in 1..k}) =>
            order[k + 1] \in Range(g.kids[order[k]])

(* C28: traverseDFS and DFS search explore as far as possible along each   *)
(* branch before backtracking: in the order in which the nodes are taken   *)
(* off the stack (the search follows the same order up to the node it      *)
(* returns), whenever the node just visited has a child that has not been  *)
(* visited yet, the next node visited is one of that node's children.      *)
C28_DepthFirst == DeepensFirst(G, traverseDFS(G).popped)

-----------------------------------------------------------------------------
\* The number of edges on a shortest path from the nodes of S, which lie at
\* distance d from the root, to the reachable node n; seen holds the nodes
\* nearer than d.
RECURSIVE DistanceFrom(_, _, _, _, _)
DistanceFrom(g, S, seen, d, n) ==
    IF n \in S \/ S = {} THEN d
    ELSE DistanceFrom(g, UNION {Range(g.kids[m]) : m \in S} \ (seen \cup S),
                      seen \cup S, d + 1, n)

Distance(g, n) == DistanceFrom(g, {g.root}, {}, 0, n)

RootListed == pc \in {"insert_DFS", "deleteNode_DFS"}

\* The nodes the running loop has pushed to its frontier, in order: every
\* push of a child is paired with a push_back to visitedNodes, and the root
\* is pushed before the loop.
Pushed == IF RootListed THEN frame.vn ELSE <<m_pRoot>> \o frame.vn

\* A loop is running and has not returned from inside (a search that finds
\* its node resets the flags and returns, lines 335-337 and 382-384).
Traversing == pc # "idle" /\ ~frame.done

NoDuplicates(seq) ==
    \A i \in 1..Len(seq), j \in 1..Len(seq) : i < j => seq[i] # seq[j]

(* C30: while a search, a printing traversal, a parent count or a deletion *)
(* walk runs, every node pushed to the frontier carries the visited flag   *)
(* from its push on, so no node has been pushed twice and the frontier     *)
(* never holds a node twice.                                               *)
C30_FlaggedOnPush ==
    Traversing =>
        /\ NoDuplicates(Pushed)
        /\ \A n \in Range(Pushed) : has_been_visited[n]
        /\ NoDuplicates(frame.fr.elems)
        /\ Range(frame.fr.elems) \subseteq Range(Pushed)

\* A loop is running with two nodes on its frontier, one of them a child
\* of the other: the child is met again when its parent is taken off.
C30_Witness ==
    /\ Traversing
    /\ \E i \in 1..Len(frame.fr.elems), j \in 1..Len(frame.fr.elems) :
           /\ i # j
           /\ frame.fr.elems[j] \in Range(m_children[frame.fr.elems[i]])

\* No two distinct nodes reachable from the root carry equal payloads.
DistinctPayloads(g) ==
    \A a \in Reachable(g), b \in Reachable(g) : g.data[a] = g.data[b] => a = b

(* C31: the graphs made by Graph() and Graph(T) hold no payload twice      *)
(* among the nodes reachable from the root, and insert, swap and           *)
(* deleteNode keep it so: applied to a graph without such duplicates they  *)
(* leave a graph without them, whatever the arguments.                     *)
C31_DistinctPayloads ==
    /\ DistinctPayloads(Graph_empty)
    /\ \A t \in Payloads : DistinctPayloads(Graph_root(t))
    /\ DistinctPayloads(G) =>
           \A a \in Payloads, b \in Payloads :
               /\ DistinctPayloads(insert(G, a, b).g)
               /\ DistinctPayloads(deleteNode(G, a).g)
               /\ \A c \in Payloads : DistinctPayloads(swap(G, a, b, c).g)

\* insert has linked a node that was in the graph already under a second
\* parent, in a graph that holds no payload twice.
C31_Witness ==
    /\ last.op = "insert"
    /\ ~last.err
    /\ DistinctPayloads(G)
    /\ \E n \in Reachable(G) : Cardinality(EntriesTo(G, m_data[n])) = 2

\* The graph g with every visitation flag cleared.
Unflagged(g) == [g EXCEPT !.vis = [n \in DOMAIN g.vis |-> FALSE]]

\* What a call leaves of a graph apart from the flags, and how it ended.
Outcome(r) == <<r.g.root, r.g.data, r.g.kids, r.err, r.line>>

(* C32: what traverseBFS and traverseDFS print and what insert, swap and   *)
(* deleteNode do depends on the root, the payloads and the child lists     *)
(* only: on the graph as earlier calls left it, flags included, every call *)
(* prints and leaves what it does on the same graph with all flags clear.  *)
C32_FlagsIrrelevant ==
    LET c == Unflagged(G) IN
    /\ traverseBFS(G).lines = traverseBFS(c).lines
    /\ traverseDFS(G).lines = traverseDFS(c).lines
    /\ \A a \in Payloads, b \in Payloads :
           /\ Outcome(insert(G, a, b)) = Outcome(insert(c, a, b))
           /\ Outcome(deleteNode(G, a)) = Outcome(deleteNode(c, a))
           /\ \A t \in Payloads :
                  Outcome(swap(G, a, b, t)) = Outcome(swap(c, a, b, t))

\* A traversal has left the root's flag set in a graph where the root is
\* some node's child, so that a later traversal meets the flagged root.
C32_Witness ==
    /\ last.op \in {"traverseBFS", "traverseDFS"}
    /\ m_pRoot # NULL
    /\ has_been_visited[m_pRoot]
    /\ \E n \in Reachable(G) : n # m_pRoot /\ m_pRoot \in Range(m_children[n])

-----------------------------------------------------------------------------
\* size() tells the number of nodes on the chain from m_pRoot, and the
\* chain is empty (m_pRoot and m_pLast null) exactly when size() is 0.
Counted(l) ==
    /\ List_size(l) = Len(l.elems)
    /\ (l.elems = <<>>) <=> (List_size(l) = 0)

(* C33: after any sequence of DoubleLinkedList operations (push_back,      *)
(* push_front, pop_back, pop_front, insert_after, erase, erase_all,        *)
(* reverse) that the program survives, size() equals the number of nodes   *)
(* linked from the head, and head and tail are null exactly when size()    *)
(* is 0.                                                                   *)
C33_SizeCountsNodes == dll # Crashed => Counted(dll)

\* Every operation but reverse keeps the counter right: applied to a list
\* whose counter equals its length, each leaves such a list, whatever the
\* arguments; reverse does so on lists of fewer than two elements only.
C33_CountedButReverse ==
    (dll # Crashed /\ Counted(dll)) =>
        /\ Counted(List_pop_back(dll))
        /\ Counted(List_pop_front(dll))
        /\ \A t \in ListValues :
               /\ Counted(List_push_back(dll, t))
               /\ Counted(List_push_front(dll, t))
               /\ Counted(List_erase(dll, t).l)
               /\ Counted(List_erase_all(dll, t).l)
               /\ \A i \in 0..MaxListLen :
                      \A r \in List_insert_after(dll, t, i) : Counted(r.l)
        /\ Counted(List_reverse(dll)) <=> Len(dll.elems) < 2

-----------------------------------------------------------------------------
\* Entity e can act: its isAlive is set and its health is above 0.
Living(b, e) == b.allEntities[e].isAlive /\ b.allEntities[e].stats.health > 0

(* C34: whenever the battle state is PLAYER_CHOICE or ENEMY_THINKING the   *)
(* current actor is alive (isAlive true and health above 0), so an entity  *)
(* that is not alive never gets a turn and never executes a skill.         *)
C34_ActorAlive ==
    battle.currentState \in {"PLAYER_CHOICE", "ENEMY_THINKING"} =>
        /\ battle.currentActor # 0
        /\ Living(battle, battle.currentActor)

\* What does hold: the actor of a turn was alive when the turn queue was
\* last recomputed, since calculateTurnOrder queues the entities whose
\* isAlive is set and startNextTurn takes the actor from the queue
\* unexamined.  An entity whose isAlive is cleared is an actor only if it
\* was still queued.
C34_ActorWasQueued ==
    \A c \in startNextTurn(battle) :
        c.currentState \in {"PLAYER_CHOICE", "ENEMY_THINKING"} =>
            \/ \E o \in battle.turnQueue : o.entity = c.currentActor
            \/ /\ battle.turnQueue = {}
               /\ battle.allEntities[c.currentActor].isAlive

-----------------------------------------------------------------------------
(* C35: once the battle state is VICTORY or DEFEAT, update and             *)
(* executePlayerAction, with any skill name and any target, leave the      *)
(* battle as it is: its state, its current actor, its turn queue and every *)
(* entity's stats and isAlive.                                             *)
C35_TerminalFrozen ==
    ~isBattleActive(battle) =>
        /\ \A r \in update(battle) : r.b = battle
        /\ \A skillName \in SkillNames \cup {"none"},
              target \in 0..Len(battle.allEntities) :
               \A r \in executePlayerAction(battle, skillName, target) :
                   r.b = battle

\* executePlayerAction was called after the battle was lost and returned
\* by its first test, a living player still being there to be named.
C35_Witness ==
    /\ battle.currentState = "DEFEAT"
    /\ last.op = "executePlayerAction"
    /\ last.line = 92
    /\ \E e \in 1..Len(battle.allEntities) : battle.allEntities[e].isAlive

-----------------------------------------------------------------------------
\* The battle states a caller can find the battle in once it has begun.
Resting == {"PLAYER_CHOICE", "ENEMY_THINKING", "VICTORY", "DEFEAT"}

(* C36: once startBattle has taken at least one entity into the battle,    *)
(* the battle state between the calls is PLAYER_CHOICE, ENEMY_THINKING,    *)
(* VICTORY or DEFEAT, and startBattle, update and executePlayerAction      *)
(* return in one of these four whatever their arguments: ACTION_EXECUTE    *)
(* runs on through TURN_END into the next turn or the end of the battle    *)
(* within the call.                                                        *)
C36_RestingStates ==
    /\ battle.nBattle > 0 => battle.currentState \in Resting
    /\ Len(battle.allEntities) > 0 =>
           \A b \in initializeBattle(battle) : b.currentState \in Resting
    /\ battle.nBattle > 0 =>
           /\ \A r \in update(battle) : r.b.currentState \in Resting
           /\ \A skillName \in SkillNames \cup {"none"},
                 target \in 0..Len(battle.allEntities) :
                  \A r \in executePlayerAction(battle, skillName, target) :
                      r.b.currentState \in Resting

\* update has made an enemy hit a player and has run on into that player's
\* turn.
C36_Witness ==
    /\ last.op = "update"
    /\ battle.currentState = "PLAYER_CHOICE"
    /\ battle.allEntities[battle.currentActor].stats.health
           < battle.allEntities[battle.currentActor].stats.maxHealth

-----------------------------------------------------------------------------
(* A round is the time between two recomputations of the turn queue.  The  *)
(* queue tells what is left of the round: the entities queued at the       *)
(* recomputation that have not been the current actor since.               *)

QueuedEntities(q) == {o.entity : o \in q}

\* No entity has two entries in q.
OncePerEntity(q) == \A o \in q, p \in q : o.entity = p.entity => o = p

\* The entities of the battle whose isAlive is set.
AliveIn(b) == {e \in 1..b.nBattle : b.allEntities[e].isAlive}

\* From a to b the round goes on: no turn has started, or one queued entity
\* has become the current actor and has left the queue, which is otherwise
\* the same.
RoundGoesOn(a, b) ==
    \/ b.turnQueue = a.turnQueue /\ b.currentActor = a.currentActor
    \/ \E o \in a.turnQueue :
           /\ b.currentActor = o.entity
           /\ b.turnQueue = a.turnQueue \ {o}

\* State n begins a round of the entities alive in c: one of them is the
\* current actor and all the others are queued once.
RoundBegins(c, n) ==
    /\ OncePerEntity(n.turnQueue)
    /\ n.currentActor \notin QueuedEntities(n.turnQueue)
    /\ QueuedEntities(n.turnQueue) \cup {n.currentActor} = AliveIn(c)

\* The queue holds each entity once at most and never the current actor.
RoundKept ==
    /\ OncePerEntity(battle.turnQueue)
    /\ battle.currentActor \notin QueuedEntities(battle.turnQueue)

\* When a call starts a turn with the queue empty, a round begins of the
\* entities alive at that moment; when none is alive the battle ends.
RoundsBeginWhole ==
    \A c \in TurnsStarting(battle) :
        c.turnQueue = {} =>
            \A n \in startNextTurn(c) :
                IF AliveIn(c) = {} THEN n.currentState = "VICTORY"
                ELSE RoundBegins(c, n)

\* The statement as it was made: while entities are queued and the battle
\* is not over, no call cuts the round short, startBattle included.
C37_Original ==
    /\ RoundKept
    /\ RoundsBeginWhole
    /\ (battle.turnQueue # {} /\ isBattleActive(battle)) =>
           \A b \in {r.b : r \in BattleCalls(battle)} \cup initializeBattle(battle) :
               RoundGoesOn(battle, b)

(* C37: between two consecutive recomputations of the turn queue each      *)
(* entity becomes the current actor at most once, and as long as           *)
(* startBattle is not called again every entity that was alive at the      *)
(* recomputation becomes the current actor exactly once unless the battle  *)
(* reaches VICTORY or DEFEAT first: update and executePlayerAction take    *)
(* the next actor out of the queue and recompute the queue only when it is *)
(* empty, for the entities then alive; startBattle begins a round of the   *)
(* entities alive whatever is still queued.                                *)
C37_RoundRobin ==
    /\ RoundKept
    /\ RoundsBeginWhole
    /\ (battle.turnQueue # {} /\ isBattleActive(battle)) =>
           \A b \in {r.b : r \in BattleCalls(battle)} : RoundGoesOn(battle, b)
    /\ LET c == [battle EXCEPT !.nBattle = Len(battle.allEntities)] IN
       AliveIn(c) # {} => \A n \in initializeBattle(battle) : RoundBegins(c, n)

\* A round of three entities has run without a recomputation to its last
\* turn: the queue is empty, the battle goes on, all three are alive.
C37_Witness ==
    /\ last.op \in {"update", "executePlayerAction"}
    /\ battle.currentState \in {"PLAYER_CHOICE", "ENEMY_THINKING"}
    /\ battle.turnQueue = {}
    /\ battle.nBattle = 3
    /\ AliveIn(battle) = 1..3

====
